---- MODULE Spec2Model ----
(***************************************************************************)
(* Build-validate-rollback orchestrator of the coding-agent template:      *)
(* RetryManager (lib/validation/retry-logic.ts), the error pattern         *)
(* analysis (lib/validation/pattern-recognition.ts), RollbackEngine        *)
(* (lib/validation/rollback-engine.ts), VersionController                  *)
(* (lib/validation/version-control) and the retry loop                     *)
(* executeAgentWithValidation (lib/validation/test-generator.ts).          *)
(*                                                                         *)
(* Strings are sequences of one-character strings.  Numbers that the code  *)
(* computes as fractions (similarities, confidences) are exact rationals   *)
(* [n |-> numerator, d |-> denominator] with d > 0; all comparisons the    *)
(* code makes are against short decimal literals and small quotients, for  *)
(* which IEEE double rounding agrees with the exact comparison.            *)
(***************************************************************************)
EXTENDS Integers, Sequences, FiniteSets, TLC

VARIABLES
    attempts,        \* RetryManager.attempts
    config,          \* RetryManager.config: [maxAttempts, rollbackThreshold]
    engineAttempts,  \* RollbackEngine.attempts
    versions,        \* VersionController.versions
    decision,        \* the RetryDecision last returned by analyzeAndDecide
    analysis,        \* the PatternAnalysisResult last returned by analyzeErrorPatterns
    rollback,        \* the RollbackDecision last returned by the engine
    lastOp,          \* the operation that produced the current state
    pc,              \* position of executeAgentWithValidation
    run,             \* locals of executeAgentWithValidation
    result,          \* the ValidationResult returned by the run
    calls,           \* calls made to the external collaborators
    simIn,           \* arguments of calculateErrorSimilarity
    simOut,          \* its result
    editIn,          \* arguments of calculateStringSimilarity
    editOut,         \* its result
    allocations,     \* PortRegistry: the allocation of each chat
    usedPorts,       \* PortRegistry: the ports in use
    now              \* the clock read by Date.now()

vars == <<attempts, config, engineAttempts, versions, decision, analysis, rollback, lastOp,
          pc, run, result, calls, simIn, simOut, editIn, editOut,
          allocations, usedPorts, now>>

----------------------------------------------------------------------------
(* Bounds of the model *)

\* longest attempt list built for a RetryManager driven method by method
MaxLedger == 3
\* longest attempt list built for a RollbackEngine driven method by method
MaxEngineLedger == 2
\* greatest maxAttempts a RetryManager driven method by method is configured with
MaxMaxAttempts == 4
\* greatest maxAttempts a run of executeAgentWithValidation is configured with
MaxRunAttempts == 3
\* most versions created by the component-level specification
MaxVersions == 2
\* longest error list handed to calculateErrorSimilarity
MaxListLen == 2
\* longest string handed to calculateStringSimilarity
MaxEditLen == 3
\* attempts of a ledger handed to generateRetryFeedback
MaxFeedbackLedger == 2
\* chats that ask the PortRegistry for a port
MaxChats == 2
\* how far, in milliseconds, the clock goes past a point in time it has jumped to
MaxLate == 2

----------------------------------------------------------------------------
(* Rationals *)

Rat(n, d) == [n |-> n, d |-> d]
RatEq(a, b) == a.n * b.d = b.n * a.d
RatLT(a, b) == a.n * b.d < b.n * a.d
RatGT(a, b) == RatLT(b, a)
RatLE(a, b) == ~RatLT(b, a)
RatZero == Rat(0, 1)
RatOne == Rat(1, 1)
RatMin(a, b) == IF RatLT(b, a) THEN b ELSE a
RatAdd(a, b) == Rat(a.n * b.d + b.n * a.d, a.d * b.d)
RatSub(a, b) == Rat(a.n * b.d - b.n * a.d, a.d * b.d)

\* a const of the source: Body applied to the value of e, which is computed
\* once, when v is bound to it, however often Body uses it
Const(e, Body(_)) == CHOOSE r \in {Body(v) : v \in {e}} : TRUE

Max2(a, b) == IF a > b THEN a ELSE b
Min2(a, b) == IF a < b THEN a ELSE b

----------------------------------------------------------------------------
(* Strings *)

WhiteSpace == {" "}

\* String.prototype.toLowerCase, on the letters the model uses
LowerChar(c) ==
    CASE c = "A" -> "a"
      [] c = "T" -> "t"
      [] OTHER -> c

ToLowerCase(str) ==
    Const(str, LAMBDA s : [i \in 1..Len(s) |-> Const(s[i], LAMBDA c : LowerChar(c))])

RECURSIVE Join(_, _)
\* Array.prototype.join(sep)
Join(list, sep) ==
    IF Len(list) = 0 THEN <<>>
    ELSE IF Len(list) = 1 THEN list[1]
    ELSE list[1] \o sep \o Join(Tail(list), sep)

RECURSIVE SplitFrom(_, _, _, _)
\* String.prototype.split(/\s+/): the pieces between maximal whitespace runs;
\* a leading or trailing run leaves an empty piece at that end.
SplitFrom(s, i, cur, prevWs) ==
    IF i > Len(s) THEN <<cur>>
    ELSE IF s[i] \in WhiteSpace
         THEN IF prevWs THEN SplitFrom(s, i + 1, cur, TRUE)
              ELSE <<cur>> \o SplitFrom(s, i + 1, <<>>, TRUE)
         ELSE SplitFrom(s, i + 1, Append(cur, s[i]), FALSE)

SplitWhitespace(str) == Const(str, LAMBDA s : SplitFrom(s, 1, <<>>, FALSE))

SeqToSet(list) == Const(list, LAMBDA q : {q[i] : i \in 1..Len(q)})

\* new Set(errors.join(' ').toLowerCase().split(/\s+/))
WordSet(errors) == SeqToSet(SplitWhitespace(ToLowerCase(Join(errors, <<" ">>))))

\* String.prototype.includes
Includes(str, sub) ==
    Const(str, LAMBDA s :
        \E i \in 0..(Len(s) - Len(sub)) :
            \A k \in 1..Len(sub) : s[i + k] = sub[k])

----------------------------------------------------------------------------
(* pattern-recognition.ts: calculateErrorSimilarity *)

\* variant: the overlap is divided by the first word set, not by the union
calculateErrorSimilarityByFirst(errors1, errors2) ==
    IF Len(errors1) = 0 /\ Len(errors2) = 0 THEN RatOne
    ELSE IF Len(errors1) = 0 \/ Len(errors2) = 0 THEN RatZero
    ELSE Const(WordSet(errors1), LAMBDA words1 :
         Const(WordSet(errors2), LAMBDA words2 :
             Rat(Cardinality(words1 \cap words2), Cardinality(words1))))

\* variant: the test for exactly one empty list is missing
calculateErrorSimilarityNoEmptyTest(errors1, errors2) ==
    IF Len(errors1) = 0 /\ Len(errors2) = 0 THEN RatOne
    ELSE Const(WordSet(errors1), LAMBDA words1 :
         Const(WordSet(errors2), LAMBDA words2 :
             Rat(Cardinality(words1 \cap words2), Cardinality(words1 \cup words2))))

calculateErrorSimilarity(errors1, errors2) ==
    IF Len(errors1) = 0 /\ Len(errors2) = 0 THEN RatOne
    ELSE IF Len(errors1) = 0 \/ Len(errors2) = 0 THEN RatZero
    ELSE Const(WordSet(errors1), LAMBDA words1 :
         Const(WordSet(errors2), LAMBDA words2 :
             LET intersection == {w \in words1 : w \in words2}
                 union == words1 \cup words2
             IN Rat(Cardinality(intersection), Cardinality(union))))

----------------------------------------------------------------------------
(* retry-logic.ts: levenshteinDistance and calculateStringSimilarity *)

RECURSIVE LevCells(_, _, _, _, _, _)
\* the inner loop over j for row i: cur holds matrix[i][0..j-1]
LevCells(str1, str2, i, j, prev, cur) ==
    IF j > Len(str1) THEN cur
    ELSE LET cell == IF str2[i] = str1[j]
                     THEN prev[j]
                     ELSE Min2(Min2(prev[j] + 1, cur[j] + 1), prev[j + 1] + 1)
         IN Const(Append(cur, cell),
                  LAMBDA next : LevCells(str1, str2, i, j + 1, prev, next))

RECURSIVE LevRows(_, _, _, _)
\* the outer loop over i: prev holds matrix[i-1][0..len1], at sequence index j+1
LevRows(str1, str2, i, prev) ==
    IF i > Len(str2) THEN prev
    ELSE Const(LevCells(str1, str2, i, 1, prev, <<i>>),
               LAMBDA row : LevRows(str1, str2, i + 1, row))

\* variant: the first row is not initialised to 0..len1 but to zeros
levenshteinDistanceZeroRow(str1, str2) ==
    LET row0 == [j \in 1..(Len(str1) + 1) |-> 0]
    IN LevRows(str1, str2, 1, row0)[Len(str1) + 1]

levenshteinDistance(str1, str2) ==
    LET row0 == [j \in 1..(Len(str1) + 1) |-> j - 1]
    IN LevRows(str1, str2, 1, row0)[Len(str1) + 1]

calculateStringSimilarity(str1, str2) ==
    IF str1 = str2 THEN RatOne
    ELSE IF Len(str1) = 0 \/ Len(str2) = 0 THEN RatZero
    ELSE Const(IF Len(str1) > Len(str2) THEN str1 ELSE str2, LAMBDA longer :
         Const(IF Len(str1) > Len(str2) THEN str2 ELSE str1, LAMBDA shorter :
             LET editDistance == levenshteinDistance(longer, shorter)
             IN Rat(Len(longer) - editDistance, Len(longer))))

----------------------------------------------------------------------------
(* retry-logic.ts: AttemptMetadata and RetryManager *)

\* testResults?: absent is present = FALSE
NoTests == [present |-> FALSE, passed |-> FALSE, errors |-> <<>>]
TestResults(passed, errors) == [present |-> TRUE, passed |-> passed, errors |-> errors]

\* agentResult: error?: absent is hasError = FALSE
AgentResult(success, hasError, error) ==
    [success |-> success, hasError |-> hasError, error |-> error]
AgentOk == AgentResult(TRUE, FALSE, <<>>)

AttemptMetadata(attemptNumber, testResults, agentResult) ==
    [attemptNumber |-> attemptNumber, testResults |-> testResults,
     agentResult |-> agentResult]

\* the constructor without the default of maxAttempts
RetryConfigNoDefault(maxAttempts, rollbackThreshold) ==
    [maxAttempts |-> maxAttempts,
     rollbackThreshold |-> IF rollbackThreshold = 0 THEN 2 ELSE rollbackThreshold]

\* constructor: config?.maxAttempts || 3, config?.rollbackThreshold || 2
RetryConfig(maxAttempts, rollbackThreshold) ==
    [maxAttempts |-> IF maxAttempts = 0 THEN 3 ELSE maxAttempts,
     rollbackThreshold |-> IF rollbackThreshold = 0 THEN 2 ELSE rollbackThreshold]

\* recordAttempt putting the attempt in front of the ledger
recordAttemptInFront(atts, metadata) == <<metadata>> \o atts

\* recordAttempt: this.attempts.push(metadata)
recordAttempt(atts, metadata) == Append(atts, metadata)

getCurrentAttemptNumber(atts) == Len(atts)

\* getLastSuccessfulAttempt scanning from the oldest attempt
getLastSuccessfulAttemptFirst(atts) ==
    LET ok == {i \in 1..Len(atts) :
                  atts[i].testResults.present /\ atts[i].testResults.passed
                  /\ atts[i].agentResult.success}
    IN IF ok = {} THEN 0 ELSE CHOOSE i \in ok : \A k \in ok : i <= k

\* getLastSuccessfulAttempt: index of the attempt returned, 0 for null
getLastSuccessfulAttempt(atts) ==
    LET ok == {i \in 1..Len(atts) :
                  atts[i].testResults.present /\ atts[i].testResults.passed
                  /\ atts[i].agentResult.success}
    IN IF ok = {} THEN 0 ELSE CHOOSE i \in ok : \A k \in ok : k <= i

Pipe == <<"|">>

detectErrorLoop(atts) ==
    IF Len(atts) < 2 THEN FALSE
    ELSE LET lastAttempt == atts[Len(atts)]
             previousAttempt == atts[Len(atts) - 1]
         IN IF ~lastAttempt.testResults.present \/ ~previousAttempt.testResults.present
            THEN FALSE
            ELSE LET lastErrors == Join(lastAttempt.testResults.errors, Pipe)
                     prevErrors == Join(previousAttempt.testResults.errors, Pipe)
                 IN Const(calculateStringSimilarity(lastErrors, prevErrors),
                          LAMBDA similarity : RatGT(similarity, Rat(8, 10)))

\* RetryManager.detectProgress
retryDetectProgress(atts) ==
    IF Len(atts) < 2 THEN TRUE
    ELSE LET lastAttempt == atts[Len(atts)]
             previousAttempt == atts[Len(atts) - 1]
         IN IF ~lastAttempt.testResults.present \/ ~previousAttempt.testResults.present
            THEN FALSE
            ELSE IF Len(lastAttempt.testResults.errors)
                      < Len(previousAttempt.testResults.errors)
            THEN TRUE
            ELSE LET lastErrors == Join(lastAttempt.testResults.errors, Pipe)
                     prevErrors == Join(previousAttempt.testResults.errors, Pipe)
                 IN Const(calculateStringSimilarity(lastErrors, prevErrors),
                          LAMBDA similarity : RatLT(similarity, Rat(7, 10)))

RetryDecision(shouldRetry, shouldRollback, reason) ==
    [shouldRetry |-> shouldRetry, shouldRollback |-> shouldRollback, reason |-> reason]

\* analyzeAndDecide without the stop at an error loop
analyzeAndDecideNoLoopStop(atts, cfg) ==
    LET attemptCount == Len(atts)
    IN IF attemptCount = 0
       THEN RetryDecision(TRUE, FALSE, "First attempt")
       ELSE IF attemptCount >= cfg.maxAttempts
       THEN RetryDecision(FALSE, TRUE, "Maximum attempts reached")
       ELSE IF ~retryDetectProgress(atts) /\ attemptCount >= cfg.rollbackThreshold
       THEN RetryDecision(FALSE, TRUE, "No progress detected")
       ELSE RetryDecision(TRUE, FALSE, "Retry attempt")

\* analyzeAndDecide stopping only beyond maxAttempts (> for >=)
analyzeAndDecideOffByOne(atts, cfg) ==
    LET attemptCount == Len(atts)
    IN IF attemptCount = 0
       THEN RetryDecision(TRUE, FALSE, "First attempt")
       ELSE IF attemptCount > cfg.maxAttempts
       THEN RetryDecision(FALSE, TRUE, "Maximum attempts reached")
       ELSE IF detectErrorLoop(atts)
       THEN RetryDecision(FALSE, TRUE, "Stuck in error loop")
       ELSE IF ~retryDetectProgress(atts) /\ attemptCount >= cfg.rollbackThreshold
       THEN RetryDecision(FALSE, TRUE, "No progress detected")
       ELSE RetryDecision(TRUE, FALSE, "Retry attempt")

\* RetryManager.analyzeAndDecide
analyzeAndDecide(atts, cfg) ==
    LET attemptCount == Len(atts)
    IN IF attemptCount = 0
       THEN RetryDecision(TRUE, FALSE, "First attempt")
       ELSE IF attemptCount >= cfg.maxAttempts
       THEN RetryDecision(FALSE, TRUE, "Maximum attempts reached")
       ELSE IF detectErrorLoop(atts)
       THEN RetryDecision(FALSE, TRUE, "Stuck in error loop")
       ELSE IF ~retryDetectProgress(atts) /\ attemptCount >= cfg.rollbackThreshold
       THEN RetryDecision(FALSE, TRUE, "No progress detected")
       ELSE RetryDecision(TRUE, FALSE, "Retry attempt")

\* generateRetryFeedback: which parts the feedback text is made of
generateRetryFeedback(atts, cfg) ==
    IF Len(atts) = 0 \/ ~atts[Len(atts)].testResults.present
    THEN [kind |-> "generic", errors |-> <<>>, attemptNote |-> FALSE, warning |-> FALSE]
    ELSE [kind |-> "errors",
          errors |-> atts[Len(atts)].testResults.errors,
          attemptNote |-> (Len(atts) >= 2),
          warning |-> detectErrorLoop(atts)]

----------------------------------------------------------------------------
(* pattern-recognition.ts *)

ErrorPattern(type, confidence) == [type |-> type, confidence |-> confidence]

\* attempts.slice(-n)
SliceLast(atts, n) ==
    IF Len(atts) <= n THEN atts ELSE SubSeq(atts, Len(atts) - n + 1, Len(atts))

\* recentAttempts.filter((a) => a.testResults).map((a) => a.testResults.errors.length)
ErrorCounts(atts) ==
    LET recentAttempts == SliceLast(atts, 3)
        withTests == SelectSeq(recentAttempts, LAMBDA a : a.testResults.present)
    IN [i \in 1..Len(withTests) |-> Len(withTests[i].testResults.errors)]

\* detectStuckInLoop comparing the first and the last of attempts.slice(-3)
detectStuckInLoopOfThree(atts) ==
    IF Len(atts) < 2 THEN <<>>
    ELSE LET recent == SliceLast(atts, 3)
             prev == recent[1]
             current == recent[Len(recent)]
         IN IF ~prev.testResults.present \/ ~current.testResults.present THEN <<>>
            ELSE Const(calculateErrorSimilarity(prev.testResults.errors,
                                                current.testResults.errors),
                       LAMBDA similarity :
                           IF RatGT(similarity, Rat(85, 100))
                           THEN <<ErrorPattern("stuck_in_loop", similarity)>>
                           ELSE <<>>)

\* each detector returns the sequence of the patterns it pushes (none or one)
detectStuckInLoop(atts) ==
    IF Len(atts) < 2 THEN <<>>
    ELSE LET prev == atts[Len(atts) - 1]
             current == atts[Len(atts)]
         IN IF ~prev.testResults.present \/ ~current.testResults.present THEN <<>>
            ELSE Const(calculateErrorSimilarity(prev.testResults.errors,
                                                current.testResults.errors),
                       LAMBDA similarity :
                           IF RatGT(similarity, Rat(85, 100))
                           THEN <<ErrorPattern("stuck_in_loop", similarity)>>
                           ELSE <<>>)

\* detectProgress asking for a strict increase from each attempt to the next
detectProgressStrictIncrease(atts) ==
    IF Len(atts) < 2 THEN <<>>
    ELSE Const(ErrorCounts(atts), LAMBDA errorCounts :
         LET n == Len(errorCounts)
             isDecreasing == \A i \in 2..n : errorCounts[i] <= errorCounts[i - 1]
             isIncreasing == \A i \in 2..n : errorCounts[i] > errorCounts[i - 1]
         IN IF n < 2 THEN <<>>
            ELSE IF isIncreasing /\ errorCounts[n] > errorCounts[1]
            THEN <<ErrorPattern("no_progress", Rat(8, 10))>>
            ELSE IF ~isDecreasing /\ \A i \in 1..n : errorCounts[i] = errorCounts[1]
            THEN <<ErrorPattern("no_progress", Rat(7, 10))>>
            ELSE <<>>)

detectProgress(atts) ==
    IF Len(atts) < 2 THEN <<>>
    ELSE Const(ErrorCounts(atts), LAMBDA errorCounts :
         LET n == Len(errorCounts)
             isDecreasing == \A i \in 2..n : errorCounts[i] <= errorCounts[i - 1]
             isIncreasing == \A i \in 2..n : errorCounts[i] >= errorCounts[i - 1]
         IN IF n < 2 THEN <<>>
            ELSE IF isIncreasing /\ errorCounts[n] > errorCounts[1]
            THEN <<ErrorPattern("no_progress", Rat(8, 10))>>
            ELSE IF ~isDecreasing /\ \A i \in 1..n : errorCounts[i] = errorCounts[1]
            THEN <<ErrorPattern("no_progress", Rat(7, 10))>>
            ELSE <<>>)

Timeout == <<"t", "i", "m", "e", "o", "u", "t">>

detectTimeoutPattern(atts) ==
    LET timeoutCount ==
            Cardinality({i \in 1..Len(atts) :
                            atts[i].agentResult.hasError
                            /\ Includes(ToLowerCase(atts[i].agentResult.error), Timeout)})
    IN IF timeoutCount >= 2 THEN <<ErrorPattern("timeout", Rat(9, 10))>> ELSE <<>>

\* detectImprovement without the 0.3 added to the improvement rate
detectImprovementRateOnly(atts) ==
    IF Len(atts) < 2 THEN <<>>
    ELSE Const(ErrorCounts(atts), LAMBDA errorCounts :
         LET n == Len(errorCounts)
             isImproving == \A i \in 2..n : errorCounts[i] < errorCounts[i - 1]
         IN IF n < 2 THEN <<>>
            ELSE IF isImproving
            THEN LET improvementRate ==
                         RatSub(RatOne, Rat(errorCounts[n], errorCounts[1]))
                 IN <<ErrorPattern("improving", RatMin(improvementRate, RatOne))>>
            ELSE LET prev == atts[Len(atts) - 1]
                     current == atts[Len(atts)]
                 IN IF prev.testResults.present /\ current.testResults.present
                    THEN Const(calculateErrorSimilarity(prev.testResults.errors,
                                                        current.testResults.errors),
                               LAMBDA similarity :
                                   IF RatLT(similarity, Rat(5, 10))
                                   THEN <<ErrorPattern("different_errors",
                                                       RatSub(RatOne, similarity))>>
                                   ELSE <<>>)
                    ELSE <<>>)

\* detectImprovement without Math.min(..., 1)
detectImprovementNoMin(atts) ==
    IF Len(atts) < 2 THEN <<>>
    ELSE Const(ErrorCounts(atts), LAMBDA errorCounts :
         LET n == Len(errorCounts)
             isImproving == \A i \in 2..n : errorCounts[i] < errorCounts[i - 1]
         IN IF n < 2 THEN <<>>
            ELSE IF isImproving
            THEN LET improvementRate ==
                         RatSub(RatOne, Rat(errorCounts[n], errorCounts[1]))
                 IN <<ErrorPattern("improving", RatAdd(improvementRate, Rat(3, 10)))>>
            ELSE LET prev == atts[Len(atts) - 1]
                     current == atts[Len(atts)]
                 IN IF prev.testResults.present /\ current.testResults.present
                    THEN Const(calculateErrorSimilarity(prev.testResults.errors,
                                                        current.testResults.errors),
                               LAMBDA similarity :
                                   IF RatLT(similarity, Rat(5, 10))
                                   THEN <<ErrorPattern("different_errors",
                                                       RatSub(RatOne, similarity))>>
                                   ELSE <<>>)
                    ELSE <<>>)

\* detectImprovement going on to the test for different errors after it has
\* found an improvement
detectImprovementBoth(atts) ==
    IF Len(atts) < 2 THEN <<>>
    ELSE Const(ErrorCounts(atts), LAMBDA errorCounts :
         LET n == Len(errorCounts)
             isImproving == \A i \in 2..n : errorCounts[i] < errorCounts[i - 1]
             prev == atts[Len(atts) - 1]
             current == atts[Len(atts)]
         IN IF n < 2 THEN <<>>
            ELSE (IF isImproving
                  THEN <<ErrorPattern("improving",
                             RatMin(RatAdd(RatSub(RatOne,
                                                  Rat(errorCounts[n], errorCounts[1])),
                                           Rat(3, 10)), RatOne))>>
                  ELSE <<>>)
                 \o (IF prev.testResults.present /\ current.testResults.present
                     THEN Const(calculateErrorSimilarity(prev.testResults.errors,
                                                         current.testResults.errors),
                                LAMBDA similarity :
                                    IF RatLT(similarity, Rat(5, 10))
                                    THEN <<ErrorPattern("different_errors",
                                                        RatSub(RatOne, similarity))>>
                                    ELSE <<>>)
                     ELSE <<>>))

detectImprovement(atts) ==
    IF Len(atts) < 2 THEN <<>>
    ELSE Const(ErrorCounts(atts), LAMBDA errorCounts :
         LET n == Len(errorCounts)
             isImproving == \A i \in 2..n : errorCounts[i] < errorCounts[i - 1]
         IN IF n < 2 THEN <<>>
            ELSE IF isImproving
            THEN LET improvementRate ==
                         RatSub(RatOne, Rat(errorCounts[n], errorCounts[1]))
                 IN <<ErrorPattern("improving",
                                   RatMin(RatAdd(improvementRate, Rat(3, 10)), RatOne))>>
            ELSE LET prev == atts[Len(atts) - 1]
                     current == atts[Len(atts)]
                 IN IF prev.testResults.present /\ current.testResults.present
                    THEN Const(calculateErrorSimilarity(prev.testResults.errors,
                                                        current.testResults.errors),
                               LAMBDA similarity :
                                   IF RatLT(similarity, Rat(5, 10))
                                   THEN <<ErrorPattern("different_errors",
                                                       RatSub(RatOne, similarity))>>
                                   ELSE <<>>)
                    ELSE <<>>)

HasPattern(patterns, P(_)) == \E i \in 1..Len(patterns) : P(patterns[i])

Assessment(overallAssessment, reasoning) ==
    [overallAssessment |-> overallAssessment, reasoning |-> reasoning]

\* determineOverallAssessment testing for timeouts before the stuck pattern
determineOverallAssessmentTimeoutFirst(patterns, atts) ==
    LET hasStuckPattern ==
            HasPattern(patterns, LAMBDA p : p.type = "stuck_in_loop"
                                            /\ RatGT(p.confidence, Rat(8, 10)))
        hasNoProgress ==
            HasPattern(patterns, LAMBDA p : p.type = "no_progress"
                                            /\ RatGT(p.confidence, Rat(7, 10)))
        hasTimeout == HasPattern(patterns, LAMBDA p : p.type = "timeout")
        hasImprovement ==
            HasPattern(patterns, LAMBDA p : p.type = "improving"
                                            \/ p.type = "different_errors")
    IN IF hasTimeout
       THEN Assessment("manual_intervention", "Repeated timeout errors")
       ELSE IF hasImprovement
       THEN Assessment("continue", "Progress detected")
       ELSE IF hasStuckPattern
       THEN Assessment("rollback", "Detected repeating error pattern")
       ELSE IF hasNoProgress /\ Len(atts) >= 3
       THEN Assessment("rollback", "No progress after multiple attempts")
       ELSE IF Len(atts) < 3
       THEN Assessment("continue", "Still within retry threshold")
       ELSE Assessment("rollback", "Max attempts reached without clear improvement")

determineOverallAssessment(patterns, atts) ==
    LET hasStuckPattern ==
            HasPattern(patterns, LAMBDA p : p.type = "stuck_in_loop"
                                            /\ RatGT(p.confidence, Rat(8, 10)))
        hasNoProgress ==
            HasPattern(patterns, LAMBDA p : p.type = "no_progress"
                                            /\ RatGT(p.confidence, Rat(7, 10)))
        hasTimeout == HasPattern(patterns, LAMBDA p : p.type = "timeout")
        hasImprovement ==
            HasPattern(patterns, LAMBDA p : p.type = "improving"
                                            \/ p.type = "different_errors")
    IN IF hasStuckPattern
       THEN Assessment("rollback", "Detected repeating error pattern")
       ELSE IF hasNoProgress /\ Len(atts) >= 3
       THEN Assessment("rollback", "No progress after multiple attempts")
       ELSE IF hasTimeout
       THEN Assessment("manual_intervention", "Repeated timeout errors")
       ELSE IF hasImprovement
       THEN Assessment("continue", "Progress detected")
       ELSE IF Len(atts) < 3
       THEN Assessment("continue", "Still within retry threshold")
       ELSE Assessment("rollback", "Max attempts reached without clear improvement")

analyzeErrorPatterns(atts) ==
    IF Len(atts) = 0
    THEN [patterns |-> <<>>, overallAssessment |-> "continue",
          reasoning |-> "No attempts yet"]
    ELSE Const(detectStuckInLoop(atts) \o detectProgress(atts)
                   \o detectTimeoutPattern(atts) \o detectImprovement(atts),
               LAMBDA patterns :
                   Const(determineOverallAssessment(patterns, atts),
                         LAMBDA assessment :
                             [patterns |-> patterns,
                              overallAssessment |-> assessment.overallAssessment,
                              reasoning |-> assessment.reasoning]))

----------------------------------------------------------------------------
(* version-control: VersionController, and rollback-engine.ts: RollbackEngine *)

\* commit hashes are positive numbers; 0 stands for "no hash" (undefined)
NoHash == 0

VersionMetadata(commitHash, attemptNumber, isStable) ==
    [commitHash |-> commitHash, attemptNumber |-> attemptNumber, isStable |-> isStable]

\* getLastStableVersion scanning from the front
getLastStableVersionFirst(vs) ==
    LET stable == {i \in 1..Len(vs) : vs[i].isStable}
    IN IF stable = {} THEN 0 ELSE CHOOSE i \in stable : \A k \in stable : i <= k

\* getLastStableVersion: scans from the end; index into versions, 0 for null
getLastStableVersion(vs) ==
    LET stable == {i \in 1..Len(vs) : vs[i].isStable}
    IN IF stable = {} THEN 0 ELSE CHOOSE i \in stable : \A k \in stable : k <= i

RollbackDecision(shouldRollback, rollbackTarget, reason, confidence) ==
    [shouldRollback |-> shouldRollback, rollbackTarget |-> rollbackTarget,
     reason |-> reason, confidence |-> confidence]

\* makeRollbackDecision without the case of the assessment "rollback"
makeRollbackDecisionManualOnly(patternAnalysis, vs) ==
    LET lastStable == getLastStableVersion(vs)
        target == IF lastStable = 0 THEN NoHash ELSE vs[lastStable].commitHash
    IN IF patternAnalysis.overallAssessment = "manual_intervention"
       THEN RollbackDecision(TRUE, target, "Manual intervention required", Rat(9, 10))
       ELSE RollbackDecision(FALSE, NoHash, patternAnalysis.reasoning, Rat(7, 10))

makeRollbackDecision(patternAnalysis, vs) ==
    LET lastStable == getLastStableVersion(vs)
        target == IF lastStable = 0 THEN NoHash ELSE vs[lastStable].commitHash
    IN IF patternAnalysis.overallAssessment = "manual_intervention"
       THEN RollbackDecision(TRUE, target, "Manual intervention required", Rat(9, 10))
       ELSE IF patternAnalysis.overallAssessment = "rollback"
       THEN RollbackDecision(TRUE, target, patternAnalysis.reasoning, Rat(85, 100))
       ELSE RollbackDecision(FALSE, NoHash, patternAnalysis.reasoning, Rat(7, 10))

\* RollbackEngine.analyzeAndDecide: the pattern analysis it logs and the decision
\* it returns
engineAnalyzeAndDecide(atts, vs) ==
    Const(analyzeErrorPatterns(atts),
          LAMBDA patternAnalysis :
              [analysis |-> patternAnalysis,
               decision |-> makeRollbackDecision(patternAnalysis, vs)])

\* addAttempt keeping only the newest attempt
addAttemptKeepLatest(atts, attempt) == <<attempt>>

\* RollbackEngine.addAttempt
addAttempt(atts, attempt) == Append(atts, attempt)

----------------------------------------------------------------------------
(* Inputs *)

\* error messages of test runs
MsgA11 == <<"a", "a", "a", "a", "a", "a", "a", "a", "a", "a", "a">>
MsgA4 == <<"a", "a", "a", "a">>
MsgA3 == <<"a", "a", "a">>
MsgA2 == <<"a", "a">>
MsgC == <<"c">>
MsgD == <<"d">>
MsgCD == <<"c", " ", "d">>

\* error lists of test runs: none, one, two, three and five messages
Errs0 == <<>>
Errs1Similar == <<MsgA11>>
Errs1Other == <<MsgCD>>
Errs1A4 == <<MsgA4>>
Errs1A3 == <<MsgA3>>
Errs2 == <<MsgA11, MsgC>>
Errs2CD == <<MsgC, MsgD>>
Errs3 == <<MsgA4, MsgA3, MsgA2>>
Errs5 == <<(<<"d">>), (<<"e">>), (<<"f">>), (<<"g">>), (<<"h">>)>>

ErrorPool == {Errs0, Errs1Similar, Errs1Other, Errs2, Errs2CD, Errs3, Errs5}

\* error messages of the agent
AgentErrors == {<<"T", "i", "m", "e", "o", "u", "t">>, <<"f", "a", "i", "l">>}

\* what an attempt can look like
AttemptShapes ==
    {[testResults |-> NoTests, agentResult |-> AgentResult(FALSE, TRUE, e)] :
        e \in AgentErrors}
    \cup {[testResults |-> NoTests, agentResult |-> AgentOk]}
    \cup {[testResults |-> TestResults(TRUE, <<>>), agentResult |-> AgentOk]}
    \cup {[testResults |-> TestResults(FALSE, errs), agentResult |-> AgentOk] :
            errs \in ErrorPool}

RECURSIVE SeqsUpTo(_, _)
\* the sequences over S of length at most n
SeqsUpTo(S, n) ==
    IF n = 0 THEN {<<>>}
    ELSE LET shorter == SeqsUpTo(S, n - 1)
         IN shorter \cup {Append(q, x) : q \in {r \in shorter : Len(r) = n - 1}, x \in S}

\* strings and error lists handed to calculateErrorSimilarity
SimStrings ==
    {<<>>, <<"a">>, <<"A">>, <<"b">>, <<" ", "a">>, <<"a", " ", "b">>}
SimLists == SeqsUpTo(SimStrings, MaxListLen)

\* strings handed to calculateStringSimilarity
EditChars == {"a", "b", "|"}
EditStrings == SeqsUpTo(EditChars, MaxEditLen)

----------------------------------------------------------------------------
(* Values of the variables a specification does not use *)

\* lastOp: the operation and, for recordAttempt and createVersion, the attempt
\* number it was called with
Op(name, n) == [op |-> name, arg |-> n]

NoRat == Rat(0 - 1, 1)
NoDecision == RetryDecision(FALSE, FALSE, "none")
NoAnalysis == [patterns |-> <<>>, overallAssessment |-> "none", reasoning |-> "none"]
NoRollback ==
    [analysis |-> NoAnalysis, decision |-> RollbackDecision(FALSE, NoHash, "none", NoRat)]
NoConfig == [maxAttempts |-> 0, rollbackThreshold |-> 0]
NoFeedback == [kind |-> "none", errors |-> <<>>, attemptNote |-> FALSE, warning |-> FALSE]
NoRun == [generateTests |-> FALSE, attemptNumber |-> 0, feedback |-> NoFeedback,
          changed |-> "none", testCode |-> "none", playwrightInstalled |-> FALSE,
          errors |-> <<>>]
NoResult == [success |-> FALSE, attempts |-> 0, rolledBack |-> FALSE,
             error |-> "none", finalTestResults |-> FALSE]
NoCalls == [agent |-> 0, tests |-> 0, restore |-> 0, restored |-> FALSE,
            versionFailed |-> FALSE, cancelled |-> FALSE, agentFailed |-> FALSE]

IdleLedger ==
    /\ attempts = <<>>
    /\ config = NoConfig
    /\ decision = NoDecision
    /\ analysis = NoAnalysis
IdleEngine ==
    /\ engineAttempts = <<>>
    /\ versions = <<>>
    /\ rollback = NoRollback
IdleRun ==
    /\ pc = "idle"
    /\ run = NoRun
    /\ result = NoResult
    /\ calls = NoCalls
IdleSim ==
    /\ simIn = <<(<<>>), (<<>>)>>
    /\ simOut = NoRat
IdleEdit ==
    /\ editIn = <<(<<>>), (<<>>)>>
    /\ editOut = NoRat
IdlePorts ==
    /\ allocations = <<>>
    /\ usedPorts = {}
    /\ now = 0

ledgerVars == <<attempts, config, decision, analysis>>
engineVars == <<engineAttempts, versions, rollback>>
runVars == <<pc, run, result, calls>>
simVars == <<simIn, simOut>>
editVars == <<editIn, editOut>>
portVars == <<allocations, usedPorts, now>>

----------------------------------------------------------------------------
(* calculateErrorSimilarity applied to bounded inputs *)

InitSim ==
    /\ simIn \in SimLists \X SimLists
    /\ simOut = NoRat
    /\ lastOp = Op("init", 0)
    /\ IdleLedger /\ IdleEngine /\ IdleRun /\ IdleEdit /\ IdlePorts

ApplySimilarity ==
    /\ lastOp = Op("init", 0)
    /\ simOut' = calculateErrorSimilarity(simIn[1], simIn[2])
    /\ lastOp' = Op("calculateErrorSimilarity", 0)
    /\ UNCHANGED <<simIn, ledgerVars, engineVars, runVars, editVars, portVars>>

NextSim == ApplySimilarity
SpecSim == InitSim /\ [][NextSim]_vars

----------------------------------------------------------------------------
(* calculateStringSimilarity applied to bounded inputs *)

InitEdit ==
    /\ editIn \in EditStrings \X EditStrings
    /\ editOut = NoRat
    /\ lastOp = Op("init", 0)
    /\ IdleLedger /\ IdleEngine /\ IdleRun /\ IdleSim /\ IdlePorts

ApplyStringSimilarity ==
    /\ lastOp = Op("init", 0)
    /\ editOut' = calculateStringSimilarity(editIn[1], editIn[2])
    /\ lastOp' = Op("calculateStringSimilarity", 0)
    /\ UNCHANGED <<editIn, ledgerVars, engineVars, runVars, simVars, portVars>>

NextEdit == ApplyStringSimilarity
SpecEdit == InitEdit /\ [][NextEdit]_vars

----------------------------------------------------------------------------
(* RetryManager driven through its public methods *)

InitRetry ==
    /\ attempts = <<>>
    /\ config \in {RetryConfig(m, r) : m \in 0..MaxMaxAttempts, r \in {0, 3}}
    /\ decision = NoDecision
    /\ analysis = NoAnalysis
    /\ lastOp = Op("init", 0)
    /\ IdleEngine /\ IdleRun /\ IdleSim /\ IdleEdit /\ IdlePorts

\* recordAttempt as the callers use it: with the next attempt number
RecordAttempt ==
    /\ Len(attempts) < MaxLedger
    /\ \E shape \in AttemptShapes :
          attempts' = recordAttempt(attempts,
                          AttemptMetadata(getCurrentAttemptNumber(attempts) + 1,
                                          shape.testResults, shape.agentResult))
    /\ lastOp' = Op("recordAttempt", getCurrentAttemptNumber(attempts) + 1)
    /\ decision' = NoDecision
    /\ analysis' = NoAnalysis
    /\ UNCHANGED <<config, engineVars, runVars, simVars, editVars, portVars>>

Decide ==
    /\ decision' = analyzeAndDecide(attempts, config)
    /\ analysis' = NoAnalysis
    /\ lastOp' = Op("analyzeAndDecide", 0)
    /\ UNCHANGED <<attempts, config, engineVars, runVars, simVars, editVars, portVars>>

\* analyzeErrorPatterns on the attempts of the manager (getAttempts)
Analyze ==
    /\ analysis' = analyzeErrorPatterns(attempts)
    /\ decision' = NoDecision
    /\ lastOp' = Op("analyzeErrorPatterns", 0)
    /\ UNCHANGED <<attempts, config, engineVars, runVars, simVars, editVars, portVars>>

NextRetry == RecordAttempt \/ Decide \/ Analyze
SpecRetry == InitRetry /\ [][NextRetry]_vars

----------------------------------------------------------------------------
(* generateRetryFeedback and analyzeErrorPatterns applied to one ledger *)

\* the ledgers of at most n attempts, numbered as recordAttempt's callers number them
Ledgers(n) ==
    {[i \in 1..Len(q) |-> AttemptMetadata(i, q[i].testResults, q[i].agentResult)] :
        q \in SeqsUpTo(AttemptShapes, n)}

InitFeedback ==
    /\ attempts \in Ledgers(MaxFeedbackLedger)
    /\ config = RetryConfig(0, 0)
    /\ decision = NoDecision
    /\ analysis = NoAnalysis
    /\ lastOp = Op("init", 0)
    /\ IdleEngine /\ IdleRun /\ IdleSim /\ IdleEdit /\ IdlePorts

GenerateFeedback ==
    /\ run.feedback = NoFeedback
    /\ run' = [run EXCEPT !.feedback = generateRetryFeedback(attempts, config)]
    /\ lastOp' = Op("generateRetryFeedback", 0)
    /\ UNCHANGED <<ledgerVars, engineVars, pc, result, calls, simVars, editVars, portVars>>

AnalyzeLedger ==
    /\ analysis = NoAnalysis
    /\ analysis' = analyzeErrorPatterns(attempts)
    /\ lastOp' = Op("analyzeErrorPatterns", 0)
    /\ UNCHANGED <<attempts, config, decision, engineVars, runVars, simVars, editVars, portVars>>

NextFeedback == GenerateFeedback \/ AnalyzeLedger
SpecFeedback == InitFeedback /\ [][NextFeedback]_vars

----------------------------------------------------------------------------
(* getLastSuccessfulAttempt applied to a ledger *)

\* what recordAttempt accepts, as executeWithRetry builds it from the result of
\* a step: test results or none, whatever the success of the step
SuccessShapes ==
    {[testResults |-> t, agentResult |-> a] :
        t \in {NoTests, TestResults(TRUE, <<>>), TestResults(FALSE, Errs1Other)},
        a \in {AgentOk, AgentResult(FALSE, TRUE, <<"f", "a", "i", "l">>)}}

InitLast ==
    /\ attempts \in {[i \in 1..Len(q) |->
                         AttemptMetadata(i, q[i].testResults, q[i].agentResult)] :
                        q \in SeqsUpTo(SuccessShapes, MaxLedger)}
    /\ config = RetryConfig(0, 0)
    /\ decision = NoDecision
    /\ analysis = NoAnalysis
    /\ lastOp = Op("init", 0)
    /\ IdleEngine /\ IdleRun /\ IdleSim /\ IdleEdit /\ IdlePorts

\* lastOp.arg keeps the index of the attempt returned, 0 for null
GetLastSuccessfulAttempt ==
    /\ lastOp.op = "init"
    /\ lastOp' = Op("getLastSuccessfulAttempt", getLastSuccessfulAttempt(attempts))
    /\ UNCHANGED <<ledgerVars, engineVars, runVars, simVars, editVars, portVars>>

NextLast == GetLastSuccessfulAttempt
SpecLast == InitLast /\ [][NextLast]_vars

----------------------------------------------------------------------------
(* recordAttempt called with any attempt number *)

RecordShapes ==
    {[testResults |-> NoTests, agentResult |-> AgentResult(FALSE, TRUE, e)] :
        e \in AgentErrors}

InitRecord ==
    /\ attempts = <<>>
    /\ config = RetryConfig(0, 0)
    /\ decision = NoDecision
    /\ analysis = NoAnalysis
    /\ lastOp = Op("init", 0)
    /\ IdleEngine /\ IdleRun /\ IdleSim /\ IdleEdit /\ IdlePorts

RecordAnyNumber ==
    /\ Len(attempts) < MaxLedger
    /\ \E shape \in RecordShapes, n \in 1..(MaxLedger + 1) :
          /\ attempts' = recordAttempt(attempts,
                             AttemptMetadata(n, shape.testResults, shape.agentResult))
          /\ lastOp' = Op("recordAttempt", n)
    /\ UNCHANGED <<config, decision, analysis, engineVars, runVars, simVars, editVars, portVars>>

NextRecord == RecordAnyNumber
SpecRecord == InitRecord /\ [][NextRecord]_vars

----------------------------------------------------------------------------
(* RollbackEngine and VersionController driven through their public methods *)

\* outcomes of the git commands of createVersion
GitOutcomes == {"committed", "nothing to commit", "failed"}

\* createVersion putting the new version in front of the history
createVersionInFront(vs, attemptNumber, isStable, git, commitHash) ==
    IF git = "committed"
    THEN <<VersionMetadata(commitHash, attemptNumber, isStable)>> \o vs
    ELSE vs

\* createVersion marking every version stable
createVersionAlwaysStable(vs, attemptNumber, isStable, git, commitHash) ==
    IF git = "committed"
    THEN Append(vs, VersionMetadata(commitHash, attemptNumber, TRUE))
    ELSE vs

\* createVersion: the versions after the call
createVersion(vs, attemptNumber, isStable, git, commitHash) ==
    IF git = "committed"
    THEN Append(vs, VersionMetadata(commitHash, attemptNumber, isStable))
    ELSE vs

\* createVersion: the success field of the result
createVersionSuccess(git) == git # "failed"

InitEngine ==
    /\ engineAttempts = <<>>
    /\ versions = <<>>
    /\ rollback = NoRollback
    /\ lastOp = Op("init", 0)
    /\ IdleLedger /\ IdleRun /\ IdleSim /\ IdleEdit /\ IdlePorts

\* the version of the attempt under way is created before the attempt is added
CreateVersion ==
    /\ Len(versions) < MaxVersions
    /\ Len(engineAttempts) < MaxEngineLedger
    /\ \A i \in 1..Len(versions) : versions[i].attemptNumber <= Len(engineAttempts)
    /\ \E isStable \in BOOLEAN, git \in GitOutcomes :
          versions' = createVersion(versions, Len(engineAttempts) + 1, isStable, git,
                                    Len(versions) + 1)
    /\ lastOp' = Op("createVersion", Len(engineAttempts) + 1)
    /\ rollback' = NoRollback
    /\ UNCHANGED <<engineAttempts, ledgerVars, runVars, simVars, editVars, portVars>>

AddAttempt ==
    /\ Len(engineAttempts) < MaxEngineLedger
    /\ \E shape \in AttemptShapes :
          engineAttempts' = addAttempt(engineAttempts,
                                AttemptMetadata(Len(engineAttempts) + 1,
                                                shape.testResults, shape.agentResult))
    /\ lastOp' = Op("addAttempt", Len(engineAttempts) + 1)
    /\ rollback' = NoRollback
    /\ UNCHANGED <<versions, ledgerVars, runVars, simVars, editVars, portVars>>

EngineDecide ==
    /\ rollback' = engineAnalyzeAndDecide(engineAttempts, versions)
    /\ lastOp' = Op("engine.analyzeAndDecide", 0)
    /\ UNCHANGED <<engineAttempts, versions, ledgerVars, runVars, simVars, editVars, portVars>>

NextEngine == CreateVersion \/ AddAttempt \/ EngineDecide
SpecEngine == InitEngine /\ [][NextEngine]_vars

----------------------------------------------------------------------------
(* test-generator.ts: executeAgentWithValidation, validation enabled *)

\* error lists the test runner reports for failing tests in a run
RunErrors == {Errs1Similar, Errs1A4, Errs1A3, Errs2, Errs3}

ValidationResult(success, n, rolledBack, error, finalTestResults) ==
    [success |-> success, attempts |-> n, rolledBack |-> rolledBack,
     error |-> error, finalTestResults |-> finalTestResults]

\* executeRollback without the test for a missing rollbackTarget
executeRollbackRestoresNoTarget(rollbackDecision) ==
    rollbackDecision.shouldRollback

\* executeRollback with the test for the rollbackTarget inverted
executeRollbackRestoresInvertedTarget(rollbackDecision) ==
    rollbackDecision.shouldRollback /\ rollbackDecision.rollbackTarget = NoHash

\* RollbackEngine.executeRollback: does it call rollbackToVersion?
executeRollbackRestores(rollbackDecision) ==
    rollbackDecision.shouldRollback /\ rollbackDecision.rollbackTarget # NoHash

Init ==
    /\ attempts = <<>>
    /\ config \in {RetryConfig(m, r) : m \in 0..MaxRunAttempts, r \in {0, 3}}
    /\ decision = NoDecision
    /\ analysis = NoAnalysis
    /\ engineAttempts = <<>>
    /\ versions = <<>>
    /\ rollback = NoRollback
    /\ lastOp = Op("init", 0)
    /\ pc = "loop"
    /\ run \in {[NoRun EXCEPT !.generateTests = g] : g \in BOOLEAN}
    /\ result = NoResult
    /\ calls = NoCalls
    /\ IdleSim /\ IdleEdit /\ IdlePorts

\* a call of versionController.createVersion in the run; the caller drops the
\* result, calls.versionFailed keeps whether a call returned success: false
CreateVersionCall(isStable, git, cs) ==
    /\ versions' = createVersion(versions, run.attemptNumber, isStable, git,
                                 Len(versions) + 1)
    /\ calls' = [cs EXCEPT !.versionFailed = @ \/ ~createVersionSuccess(git)]

\* return from the run
Return(res) ==
    /\ result' = res
    /\ pc' = "done"

\* line 455-484: the head of the loop, when the manager says retry
LoopRetry ==
    /\ pc = "loop"
    /\ decision' = analyzeAndDecide(attempts, config)
    /\ decision'.shouldRetry
    /\ LET attemptNumber == getCurrentAttemptNumber(attempts) + 1
       IN run' = [run EXCEPT !.attemptNumber = attemptNumber,
                             !.feedback = IF attemptNumber > 1
                                          THEN generateRetryFeedback(attempts, config)
                                          ELSE NoFeedback]
    /\ pc' = "cancel"
    /\ lastOp' = Op("analyzeAndDecide", 0)
    /\ UNCHANGED <<attempts, config, analysis, engineVars, result, calls, simVars, editVars, portVars>>

\* line 455-481: the head of the loop, when the manager says stop
LoopStop ==
    /\ pc = "loop"
    /\ decision' = analyzeAndDecide(attempts, config)
    /\ ~decision'.shouldRetry
    /\ rollback' = engineAnalyzeAndDecide(engineAttempts, versions)
    /\ IF rollback'.decision.shouldRollback
       THEN /\ IF executeRollbackRestores(rollback'.decision)
               THEN \E ok \in BOOLEAN :
                       calls' = [calls EXCEPT !.restore = @ + 1, !.restored = ok]
               ELSE calls' = calls
            /\ Return(ValidationResult(FALSE, getCurrentAttemptNumber(attempts), TRUE,
                                       decision'.reason, FALSE))
       ELSE /\ calls' = calls
            /\ Return(ValidationResult(FALSE, getCurrentAttemptNumber(attempts), FALSE,
                                       decision'.reason, FALSE))
    /\ lastOp' = Op("engine.analyzeAndDecide", 0)
    /\ UNCHANGED <<attempts, config, analysis, engineAttempts, versions, run,
                   simVars, editVars, portVars>>

\* the cancellation check made for the first attempt only
CheckCancellationFirstAttemptOnly ==
    /\ pc = "cancel"
    /\ \E cancelled \in BOOLEAN :
          /\ calls' = [calls EXCEPT !.cancelled = cancelled]
          /\ IF cancelled /\ run.attemptNumber = 1
             THEN Return(ValidationResult(FALSE, run.attemptNumber, FALSE,
                                          "Cancelled by user", FALSE))
             ELSE pc' = "agent" /\ result' = result
    /\ lastOp' = Op("onCancellationCheck", 0)
    /\ UNCHANGED <<ledgerVars, engineVars, run, simVars, editVars, portVars>>

\* line 488-497: a missing onCancellationCheck is one that answers false;
\* calls.cancelled keeps the answer
CheckCancellation ==
    /\ pc = "cancel"
    /\ \E cancelled \in BOOLEAN :
          /\ calls' = [calls EXCEPT !.cancelled = cancelled]
          /\ IF cancelled
             THEN Return(ValidationResult(FALSE, run.attemptNumber, FALSE,
                                          "Cancelled by user", FALSE))
             ELSE pc' = "agent" /\ result' = result
    /\ lastOp' = Op("onCancellationCheck", 0)
    /\ UNCHANGED <<ledgerVars, engineVars, run, simVars, editVars, portVars>>

\* the agent execution without the "continue" of its failure branch: the failed
\* attempt is recorded and the attempt goes on to the changed files
ExecuteAgentFailureFallsThrough ==
    /\ pc = "agent"
    /\ \/ /\ calls' = [calls EXCEPT !.agent = @ + 1, !.agentFailed = FALSE]
          /\ pc' = "changed"
          /\ UNCHANGED <<attempts, engineAttempts>>
       \/ \E e \in AgentErrors :
             LET attemptMetadata == AttemptMetadata(run.attemptNumber, NoTests,
                                                    AgentResult(FALSE, TRUE, e))
             IN /\ calls' = [calls EXCEPT !.agent = @ + 1, !.agentFailed = TRUE]
                /\ attempts' = recordAttempt(attempts, attemptMetadata)
                /\ engineAttempts' = addAttempt(engineAttempts, attemptMetadata)
                /\ pc' = "changed"
    /\ lastOp' = Op("executeAgent", run.attemptNumber)
    /\ UNCHANGED <<config, decision, analysis, versions, rollback, run, result,
                   simVars, editVars, portVars>>

\* line 510-545: the agent runs; a failed run is recorded and the loop goes on
ExecuteAgent ==
    /\ pc = "agent"
    /\ \/ /\ calls' = [calls EXCEPT !.agent = @ + 1, !.agentFailed = FALSE]
          /\ pc' = "changed"
          /\ UNCHANGED <<attempts, engineAttempts>>
       \/ \E e \in AgentErrors :
             LET attemptMetadata == AttemptMetadata(run.attemptNumber, NoTests,
                                                    AgentResult(FALSE, TRUE, e))
             IN /\ calls' = [calls EXCEPT !.agent = @ + 1, !.agentFailed = TRUE]
                /\ attempts' = recordAttempt(attempts, attemptMetadata)
                /\ engineAttempts' = addAttempt(engineAttempts, attemptMetadata)
                /\ pc' = "loop"
    /\ lastOp' = Op("executeAgent", run.attemptNumber)
    /\ UNCHANGED <<config, decision, analysis, versions, rollback, run, result,
                   simVars, editVars, portVars>>

\* line 547-560: getChangedFiles; the kind of project the files show
GetChangedFiles ==
    /\ pc = "changed"
    /\ \E changed \in {"none", "web", "other"} :
          IF changed = "none"
          THEN /\ Return(ValidationResult(TRUE, run.attemptNumber, FALSE, "none", FALSE))
               /\ run' = run
          ELSE /\ run' = [run EXCEPT !.changed = changed]
               /\ pc' = "generate"
               /\ result' = result
    /\ lastOp' = Op("getChangedFiles", 0)
    /\ UNCHANGED <<ledgerVars, engineVars, calls, simVars, editVars, portVars>>

\* line 562-605: test generation; the generated code may be the empty string
GenerateTests ==
    /\ pc = "generate"
    /\ IF run.generateTests /\ (run.testCode # "code" \/ run.attemptNumber > 1)
       THEN IF run.changed # "web"
            THEN \E git \in GitOutcomes :
                    /\ CreateVersionCall(TRUE, git, calls)
                    /\ Return(ValidationResult(TRUE, run.attemptNumber, FALSE, "none",
                                               FALSE))
                    /\ run' = run
            ELSE \E gen \in {"failed", "empty", "code"} :
                    IF gen = "failed"
                    THEN \E git \in GitOutcomes :
                            /\ CreateVersionCall(TRUE, git, calls)
                            /\ Return(ValidationResult(TRUE, run.attemptNumber, FALSE,
                                                       "none", FALSE))
                            /\ run' = run
                    ELSE /\ run' = [run EXCEPT !.testCode = gen]
                         /\ pc' = "install"
                         /\ UNCHANGED <<versions, result, calls>>
       ELSE /\ pc' = "install"
            /\ UNCHANGED <<versions, result, run, calls>>
    /\ lastOp' = Op("generatePlaywrightTests", run.attemptNumber)
    /\ UNCHANGED <<ledgerVars, engineAttempts, rollback, simVars, editVars, portVars>>

\* line 607-626: Playwright is installed once
InstallPlaywright ==
    /\ pc = "install"
    /\ IF run.testCode = "code" /\ ~run.playwrightInstalled
       THEN \E ok \in BOOLEAN :
               IF ok
               THEN /\ run' = [run EXCEPT !.playwrightInstalled = TRUE]
                    /\ pc' = "write"
                    /\ UNCHANGED <<versions, result, calls>>
               ELSE \E git \in GitOutcomes :
                       /\ CreateVersionCall(TRUE, git, calls)
                       /\ Return(ValidationResult(TRUE, run.attemptNumber, FALSE, "none",
                                                  FALSE))
                       /\ run' = run
       ELSE /\ pc' = "write"
            /\ UNCHANGED <<versions, result, run, calls>>
    /\ lastOp' = Op("installPlaywright", run.attemptNumber)
    /\ UNCHANGED <<ledgerVars, engineAttempts, rollback, simVars, editVars, portVars>>

\* line 628-643: the test file is written
WriteTestFile ==
    /\ pc = "write"
    /\ IF run.testCode = "code"
       THEN \E ok \in BOOLEAN :
               IF ok
               THEN /\ pc' = "tests"
                    /\ UNCHANGED <<versions, result, calls>>
               ELSE \E git \in GitOutcomes :
                       /\ CreateVersionCall(TRUE, git, calls)
                       /\ Return(ValidationResult(TRUE, run.attemptNumber, FALSE, "none",
                                                  FALSE))
       ELSE /\ pc' = "tests"
            /\ UNCHANGED <<versions, result, calls>>
    /\ lastOp' = Op("writeTestFile", run.attemptNumber)
    /\ UNCHANGED <<ledgerVars, engineAttempts, rollback, run, simVars, editVars, portVars>>

\* line 645-692, 711-724: the tests run; the version of the attempt is created
ExecuteTests ==
    /\ pc = "tests"
    /\ IF run.testCode = "code" /\ run.playwrightInstalled
       THEN LET ran == [calls EXCEPT !.tests = @ + 1]
            IN \/ \E git \in GitOutcomes :
                     /\ CreateVersionCall(TRUE, git, ran)
                     /\ Return(ValidationResult(TRUE, run.attemptNumber, FALSE, "none",
                                                TRUE))
                     /\ run' = run
               \/ \E errs \in RunErrors, git \in GitOutcomes :
                     /\ CreateVersionCall(FALSE, git, ran)
                     /\ run' = [run EXCEPT !.errors = errs]
                     /\ pc' = "record"
                     /\ result' = result
       ELSE \E git \in GitOutcomes :
               /\ CreateVersionCall(TRUE, git, calls)
               /\ Return(ValidationResult(TRUE, run.attemptNumber, FALSE, "none", FALSE))
               /\ run' = run
    /\ lastOp' = Op("executePlaywrightTests", run.attemptNumber)
    /\ UNCHANGED <<ledgerVars, engineAttempts, rollback, simVars, editVars, portVars>>

\* line 693-710: the attempt with the failing tests is recorded once its version
\* has been created, and the loop goes on
RecordFailedTests ==
    /\ pc = "record"
    /\ LET attemptMetadata ==
               AttemptMetadata(run.attemptNumber, TestResults(FALSE, run.errors), AgentOk)
       IN /\ attempts' = recordAttempt(attempts, attemptMetadata)
          /\ engineAttempts' = addAttempt(engineAttempts, attemptMetadata)
    /\ run' = [run EXCEPT !.errors = <<>>]
    /\ pc' = "loop"
    /\ lastOp' = Op("recordAttempt", run.attemptNumber)
    /\ UNCHANGED <<config, decision, analysis, versions, rollback, result, calls,
                   simVars, editVars, portVars>>

Next ==
    \/ LoopRetry
    \/ LoopStop
    \/ CheckCancellation
    \/ ExecuteAgent
    \/ GetChangedFiles
    \/ GenerateTests
    \/ InstallPlaywright
    \/ WriteTestFile
    \/ ExecuteTests
    \/ RecordFailedTests

Spec == Init /\ [][Next]_vars

\* every step of the run is one call that returns
FairSpec == Spec /\ WF_vars(Next)

\* line 548 with test-executor.ts 476-515: getChangedFiles awaits runGitCommand
\* outside any try block, and runGitCommand awaits the sandbox's runCommand and
\* the command's stdout() and stderr(); when one of them rejects, the rejection
\* passes through the loop, which has no try block either, and the promise of
\* executeAgentWithValidation rejects: no result is returned
GetChangedFilesThrows ==
    /\ pc = "changed"
    /\ pc' = "thrown"
    /\ lastOp' = Op("getChangedFiles", 0)
    /\ UNCHANGED <<ledgerVars, engineVars, run, result, calls, simVars, editVars, portVars>>

NextThrow ==
    \/ Next
    \/ GetChangedFilesThrows

\* the runs of executeAgentWithValidation, those in which a call of the
\* sandbox throws included
SpecThrow == Init /\ [][NextThrow]_vars

----------------------------------------------------------------------------
(* retry-logic.ts: executeWithRetry *)

\* what executeAttempt can return: {success, testResults?, error?}
AttemptResults ==
    {[success |-> ok, testResults |-> t,
      agentResult |-> IF ok THEN AgentOk
                      ELSE AgentResult(FALSE, TRUE, <<"f", "a", "i", "l">>)] :
        ok \in BOOLEAN,
        t \in {NoTests, TestResults(TRUE, <<>>), TestResults(FALSE, Errs1Similar),
               TestResults(FALSE, Errs1A4), TestResults(FALSE, Errs2)}}

\* line 296-305: a retry manager made from the config, no attempt made
InitWithRetry ==
    /\ attempts = <<>>
    /\ config \in {RetryConfig(m, r) : m \in 0..MaxRunAttempts, r \in {0, 3}}
    /\ decision = NoDecision
    /\ analysis = NoAnalysis
    /\ lastOp = Op("init", 0)
    /\ pc = "loop"
    /\ run = NoRun
    /\ result = NoResult
    /\ calls = NoCalls
    /\ IdleEngine /\ IdleSim /\ IdleEdit /\ IdlePorts

\* line 307-324: the head of the loop: stop with the reason of the decision, or
\* go on with the next attempt number and its feedback
WithRetryDecide ==
    /\ pc = "loop"
    /\ decision' = analyzeAndDecide(attempts, config)
    /\ IF ~decision'.shouldRetry
       THEN /\ Return(ValidationResult(FALSE, getCurrentAttemptNumber(attempts), FALSE,
                                       decision'.reason, FALSE))
            /\ run' = run
       ELSE /\ LET attemptNumber == getCurrentAttemptNumber(attempts) + 1
               IN run' = [run EXCEPT !.attemptNumber = attemptNumber,
                                     !.feedback = IF attemptNumber > 1
                                                  THEN generateRetryFeedback(attempts,
                                                                             config)
                                                  ELSE NoFeedback]
            /\ pc' = "attempt"
            /\ result' = result
    /\ lastOp' = Op("analyzeAndDecide", 0)
    /\ UNCHANGED <<attempts, config, analysis, engineVars, calls, simVars, editVars, portVars>>

\* line 332-356: executeAttempt returns; the attempt is recorded, and the
\* function returns success when the attempt succeeded and its tests passed
ExecuteAttempt ==
    /\ pc = "attempt"
    /\ \E r \in AttemptResults :
          /\ attempts' = recordAttempt(attempts,
                              AttemptMetadata(run.attemptNumber, r.testResults,
                                              r.agentResult))
          /\ calls' = [calls EXCEPT !.agent = @ + 1, !.agentFailed = ~r.success]
          /\ IF r.success /\ r.testResults.present /\ r.testResults.passed
             THEN Return(ValidationResult(TRUE, run.attemptNumber, FALSE, "none", TRUE))
             ELSE pc' = "loop" /\ result' = result
    /\ lastOp' = Op("executeAttempt", run.attemptNumber)
    /\ UNCHANGED <<config, decision, analysis, engineVars, run, simVars, editVars, portVars>>

\* the catch block recording the attempt without the failure of the agent
ExecuteAttemptThrowsUnmarked ==
    /\ pc = "attempt"
    /\ \E message \in AgentErrors :
          attempts' = recordAttempt(attempts,
                          AttemptMetadata(run.attemptNumber, NoTests, AgentOk))
    /\ calls' = [calls EXCEPT !.agent = @ + 1, !.agentFailed = TRUE]
    /\ pc' = "loop"
    /\ lastOp' = Op("executeAttempt throws", run.attemptNumber)
    /\ UNCHANGED <<config, decision, analysis, engineVars, run, result, simVars,
                   editVars, portVars>>

\* line 357-368: executeAttempt throws; the catch block records an attempt with
\* the message of the error and the loop goes on
ExecuteAttemptThrows ==
    /\ pc = "attempt"
    /\ \E message \in AgentErrors :
          attempts' = recordAttempt(attempts,
                          AttemptMetadata(run.attemptNumber, NoTests,
                                          AgentResult(FALSE, TRUE, message)))
    /\ calls' = [calls EXCEPT !.agent = @ + 1, !.agentFailed = TRUE]
    /\ pc' = "loop"
    /\ lastOp' = Op("executeAttempt throws", run.attemptNumber)
    /\ UNCHANGED <<config, decision, analysis, engineVars, run, result, simVars,
                   editVars, portVars>>

NextWithRetry ==
    \/ WithRetryDecide
    \/ ExecuteAttempt
    \/ ExecuteAttemptThrows

SpecWithRetry == InitWithRetry /\ [][NextWithRetry]_vars

----------------------------------------------------------------------------
(* PortRegistry *)

MIN_PORT == 3100
MAX_PORT == 3999
ALLOCATION_TIMEOUT == 1800000

Chats == 1..MaxChats
ContainerIds == {"container"}

PortAllocation(chatId, port, allocatedAt, containerId) ==
    [chatId |-> chatId, port |-> port, allocatedAt |-> allocatedAt,
     containerId |-> containerId]

\* Map.set and Map.delete on the allocations
MapSet(m, k, v) == [c \in DOMAIN m \cup {k} |-> IF c = k THEN v ELSE m[c]]
MapDelete(m, k) == [c \in DOMAIN m \ {k} |-> m[c]]

\* the first port of the range that is not in use, 0 when the loop ends without one
FirstFreePort(used) ==
    LET free == (MIN_PORT..MAX_PORT) \ used
    IN IF free = {} THEN 0 ELSE CHOOSE p \in free : \A q \in free : p <= q

\* allocatePort handing out the first port of the range whether it is in use
\* or not
allocatePortNoUsedTest(allocs, used, chatId, containerId, t) ==
    IF chatId \in DOMAIN allocs
    THEN [allocations |-> allocs, usedPorts |-> used, port |-> allocs[chatId].port]
    ELSE [allocations |-> MapSet(allocs, chatId,
                                 PortAllocation(chatId, MIN_PORT, t, containerId)),
          usedPorts |-> used \cup {MIN_PORT},
          port |-> MIN_PORT]

\* allocatePort: the registry after the call and the port returned; port 0
\* stands for the error thrown when no port is free
allocatePort(allocs, used, chatId, containerId, t) ==
    IF chatId \in DOMAIN allocs
    THEN [allocations |-> allocs, usedPorts |-> used, port |-> allocs[chatId].port]
    ELSE LET port == FirstFreePort(used)
         IN IF port = 0
            THEN [allocations |-> allocs, usedPorts |-> used, port |-> 0]
            ELSE [allocations |-> MapSet(allocs, chatId,
                                         PortAllocation(chatId, port, t, containerId)),
                  usedPorts |-> used \cup {port},
                  port |-> port]

\* releasePort: the registry after the call
releasePort(allocs, used, chatId) ==
    IF chatId \in DOMAIN allocs
    THEN [allocations |-> MapDelete(allocs, chatId),
          usedPorts |-> used \ {allocs[chatId].port}]
    ELSE [allocations |-> allocs, usedPorts |-> used]

\* cleanupExpired: releasePort for every chat whose allocation is older than
\* the timeout
cleanupExpired(allocs, used, t) ==
    LET expired == {c \in DOMAIN allocs : t - allocs[c].allocatedAt > ALLOCATION_TIMEOUT}
    IN [allocations |-> [c \in DOMAIN allocs \ expired |-> allocs[c]],
        usedPorts |-> used \ {allocs[c].port : c \in expired}]

\* export const portRegistry = new PortRegistry()
InitPorts ==
    /\ allocations = <<>>
    /\ usedPorts = {}
    /\ now = 0
    /\ lastOp = [op |-> "init", arg |-> 0, chatId |-> 0]
    /\ IdleLedger /\ IdleEngine /\ IdleRun /\ IdleSim /\ IdleEdit

AllocatePort ==
    /\ \E chatId \in Chats, containerId \in ContainerIds :
          LET r == allocatePort(allocations, usedPorts, chatId, containerId, now)
          IN /\ allocations' = r.allocations
             /\ usedPorts' = r.usedPorts
             /\ lastOp' = [op |-> "allocatePort", arg |-> r.port, chatId |-> chatId]
    /\ UNCHANGED <<now, ledgerVars, engineVars, runVars, simVars, editVars>>

ReleasePort ==
    /\ \E chatId \in Chats :
          LET r == releasePort(allocations, usedPorts, chatId)
          IN /\ allocations' = r.allocations
             /\ usedPorts' = r.usedPorts
             /\ lastOp' = [op |-> "releasePort", arg |-> 0, chatId |-> chatId]
    /\ UNCHANGED <<now, ledgerVars, engineVars, runVars, simVars, editVars>>

\* the cleanup the interval timer runs
CleanupExpired ==
    /\ LET r == cleanupExpired(allocations, usedPorts, now)
       IN /\ allocations' = r.allocations
          /\ usedPorts' = r.usedPorts
    /\ lastOp' = [op |-> "cleanupExpired", arg |-> 0, chatId |-> 0]
    /\ UNCHANGED <<now, ledgerVars, engineVars, runVars, simVars, editVars>>

\* time passes between two calls: a millisecond, or the length of the timeout
Tick ==
    /\ \/ /\ now % ALLOCATION_TIMEOUT < MaxLate
          /\ now' = now + 1
       \/ /\ now < ALLOCATION_TIMEOUT
          /\ now' = now + ALLOCATION_TIMEOUT
    /\ UNCHANGED <<allocations, usedPorts, lastOp, ledgerVars, engineVars, runVars,
                   simVars, editVars>>

NextPorts ==
    \/ AllocatePort
    \/ ReleasePort
    \/ CleanupExpired
    \/ Tick

SpecPorts == InitPorts /\ [][NextPorts]_vars

----------------------------------------------------------------------------
(* Claims about RetryManager (SpecRetry, SpecRecord) *)

\* C1: bounded retries. Whenever analyzeAndDecide is called on a manager that is
\* configured with maxAttempts >= 1 and whose ledger holds at least maxAttempts
\* attempts, whatever the attempts are, it returns shouldRetry = false and
\* shouldRollback = true.
C1_BoundedRetries ==
    (/\ lastOp.op = "analyzeAndDecide"
     /\ config.maxAttempts >= 1
     /\ Len(attempts) >= config.maxAttempts)
    => (~decision.shouldRetry /\ decision.shouldRollback)

\* the ledger has just reached maxAttempts with attempts that show no loop and
\* show progress, and the manager stops
C1_Witness ==
    /\ lastOp.op = "analyzeAndDecide"
    /\ Len(attempts) >= 2
    /\ Len(attempts) = config.maxAttempts
    /\ ~detectErrorLoop(attempts)
    /\ retryDetectProgress(attempts)
    /\ ~decision.shouldRetry
    /\ decision.shouldRollback
    /\ decision.reason = "Maximum attempts reached"

\* C3: recordAttempt called with an attempt number different from count() + 1
\* (duplicate, skipped or out of order) signals InvalidSequence and leaves the
\* ledger unchanged.
C3_WrongIndexLeavesLedgerUnchanged ==
    [][(lastOp'.op = "recordAttempt" /\ lastOp'.arg # Len(attempts) + 1)
         => attempts' = attempts]_vars

\* the last two attempts both have test results, with identical error lists
IdenticalLastTwo(atts) ==
    /\ Len(atts) >= 2
    /\ atts[Len(atts) - 1].testResults.present
    /\ atts[Len(atts)].testResults.present
    /\ atts[Len(atts) - 1].testResults.errors = atts[Len(atts)].testResults.errors

\* C4: loop detection. For every ledger whose last two attempts both have test
\* results with identical error lists, analyzeErrorPatterns reports a
\* stuck_in_loop pattern with confidence exactly 1 and the overall assessment
\* is rollback, whatever other patterns it reports.
C4_LoopDetection ==
    (lastOp.op = "analyzeErrorPatterns" /\ IdenticalLastTwo(attempts))
    => /\ \E i \in 1..Len(analysis.patterns) :
             /\ analysis.patterns[i].type = "stuck_in_loop"
             /\ RatEq(analysis.patterns[i].confidence, RatOne)
       /\ analysis.overallAssessment = "rollback"

\* identical non-empty error lists after an attempt with fewer errors: the loop
\* is reported next to a no_progress pattern
C4_Witness ==
    /\ lastOp.op = "analyzeErrorPatterns"
    /\ Len(attempts) = 3
    /\ IdenticalLastTwo(attempts)
    /\ Len(attempts[3].testResults.errors) > 0
    /\ Len(analysis.patterns) >= 2
    /\ analysis.patterns[1].type = "stuck_in_loop"
    /\ analysis.overallAssessment = "rollback"

\* attempt a failed its tests with n error messages
FailedWith(a, n) ==
    /\ a.testResults.present
    /\ ~a.testResults.passed
    /\ Len(a.testResults.errors) = n

\* the error messages of all the attempts, one after the other
RECURSIVE AllMessages(_)
AllMessages(atts) ==
    IF Len(atts) = 0 THEN <<>>
    ELSE AllMessages(SubSeq(atts, 1, Len(atts) - 1)) \o atts[Len(atts)].testResults.errors

PairwiseDistinct(q) == \A i, j \in 1..Len(q) : i # j => q[i] # q[j]

\* the ledger ends with failed attempts of 5, 3 and 1 errors, or with the first
\* two of them, all messages pairwise distinct
EndsImproving(atts) ==
    LET n == Len(atts)
    IN \/ /\ n >= 3
          /\ FailedWith(atts[n - 2], 5) /\ FailedWith(atts[n - 1], 3)
          /\ FailedWith(atts[n], 1)
          /\ PairwiseDistinct(AllMessages(SubSeq(atts, n - 2, n)))
       \/ /\ n >= 2
          /\ FailedWith(atts[n - 1], 5) /\ FailedWith(atts[n], 3)
          /\ PairwiseDistinct(AllMessages(SubSeq(atts, n - 1, n)))

\* C8: improvement continues. With maxAttempts > 3 and a ledger below maxAttempts
\* whose last three attempts failed tests with 5, 3 and 1 pairwise distinct
\* errors (or whose last two are the first two of these), analyzeAndDecide
\* returns shouldRetry = true.
C8_ImprovementContinues ==
    (/\ lastOp.op = "analyzeAndDecide"
     /\ config.maxAttempts > 3
     /\ Len(attempts) < config.maxAttempts
     /\ EndsImproving(attempts))
    => decision.shouldRetry

----------------------------------------------------------------------------
(* Claims about calculateErrorSimilarity (SpecSim) *)

SimApplied == lastOp.op = "calculateErrorSimilarity"

\* C5: similarity is symmetric: similarity(a, b) = similarity(b, a) for all
\* lists of strings a and b.
C5_SimilaritySymmetric ==
    SimApplied => RatEq(simOut, calculateErrorSimilarity(simIn[2], simIn[1]))

\* two different non-empty lists that share some words but not all
C5_Witness ==
    /\ SimApplied
    /\ simIn[1] # simIn[2]
    /\ WordSet(simIn[1]) # WordSet(simIn[2])
    /\ RatLT(RatZero, simOut) /\ RatLT(simOut, RatOne)

\* C6: 0 <= similarity(a, b) <= 1; similarity([], []) = 1; and the similarity
\* is 0 whenever exactly one of the lists is empty.
C6_SimilarityBounds ==
    SimApplied =>
        /\ simOut.d > 0
        /\ RatLE(RatZero, simOut) /\ RatLE(simOut, RatOne)
        /\ (Len(simIn[1]) = 0 /\ Len(simIn[2]) = 0 => RatEq(simOut, RatOne))
        /\ ((Len(simIn[1]) = 0) # (Len(simIn[2]) = 0) => RatEq(simOut, RatZero))

\* exactly one list is empty, and the other one yields the empty word
C6_Witness ==
    /\ SimApplied
    /\ Len(simIn[1]) = 0 /\ Len(simIn[2]) > 0
    /\ <<>> \in WordSet(simIn[2])
    /\ RatEq(simOut, RatZero)

----------------------------------------------------------------------------
(* Claims about calculateStringSimilarity (SpecEdit) *)

RECURSIVE Lev(_, _)
\* the Levenshtein distance by its defining recurrence: insertion, deletion and
\* substitution cost 1 each
Lev(a, b) ==
    IF Len(a) = 0 THEN Len(b)
    ELSE IF Len(b) = 0 THEN Len(a)
    ELSE Min2(Min2(Lev(Tail(a), b) + 1, Lev(a, Tail(b)) + 1),
              Lev(Tail(a), Tail(b)) + (IF Head(a) = Head(b) THEN 0 ELSE 1))

\* 1 - lev(s1, s2) / max(len(s1), len(s2)), and 1 when both strings are empty
NormalizedEditSimilarity(s1, s2) ==
    IF Len(s1) = 0 /\ Len(s2) = 0 THEN RatOne
    ELSE LET m == Max2(Len(s1), Len(s2))
         IN Rat(m - Lev(s1, s2), m)

EditApplied == lastOp.op = "calculateStringSimilarity"

\* C7: editSimilarity(s1, s2) = 1 - lev(s1, s2) / max(len(s1), len(s2)) for all
\* strings, with lev the standard Levenshtein distance, and 1 when both strings
\* are empty; in particular editSimilarity(s, s) = 1.
C7_EditSimilarityIsNormalizedLevenshtein ==
    EditApplied =>
        /\ RatEq(editOut, NormalizedEditSimilarity(editIn[1], editIn[2]))
        /\ (editIn[1] = editIn[2] => RatEq(editOut, RatOne))

\* two different strings of different lengths that need a substitution and a
\* deletion
C7_Witness ==
    /\ EditApplied
    /\ Len(editIn[1]) = 3 /\ Len(editIn[2]) = 2
    /\ Lev(editIn[1], editIn[2]) = 2
    /\ RatEq(editOut, Rat(1, 3))

----------------------------------------------------------------------------
(* Claims about RollbackEngine (SpecEngine) *)

\* the commit hash of the stable version with the greatest attemptNumber,
\* NoHash when no version is stable
GreatestStableHash(vs) ==
    LET stable == {i \in 1..Len(vs) : vs[i].isStable}
    IN IF stable = {} THEN NoHash
       ELSE LET top == CHOOSE i \in stable :
                           \A k \in stable : vs[k].attemptNumber <= vs[i].attemptNumber
            IN vs[top].commitHash

\* C9: RollbackEngine.analyzeAndDecide returns shouldRollback = true exactly when
\* the assessment of analyzeErrorPatterns on its attempts is rollback (then the
\* confidence is 0.85) or manual_intervention (then 0.9), and shouldRollback =
\* false with confidence 0.7 otherwise; when shouldRollback is true the target
\* is the commit hash of the stable version with the greatest attemptNumber,
\* and there is no target when no version is stable.
C9_RollbackDecision ==
    lastOp.op = "engine.analyzeAndDecide"
    => LET verdict == analyzeErrorPatterns(engineAttempts).overallAssessment
           d == rollback.decision
       IN /\ d.shouldRollback <=> verdict \in {"rollback", "manual_intervention"}
          /\ verdict = "rollback" => RatEq(d.confidence, Rat(85, 100))
          /\ verdict = "manual_intervention" => RatEq(d.confidence, Rat(9, 10))
          /\ ~d.shouldRollback => RatEq(d.confidence, Rat(7, 10))
          /\ d.shouldRollback => d.rollbackTarget = GreatestStableHash(versions)
          /\ (d.shouldRollback /\ \A i \in 1..Len(versions) : ~versions[i].isStable)
                => d.rollbackTarget = NoHash

\* a rollback is decided with two stable versions: the target is the later one
C9_Witness ==
    /\ lastOp.op = "engine.analyzeAndDecide"
    /\ rollback.decision.shouldRollback
    /\ Len(versions) = 2
    /\ versions[1].isStable /\ versions[2].isStable
    /\ versions[1].attemptNumber < versions[2].attemptNumber
    /\ rollback.decision.rollbackTarget = versions[2].commitHash

----------------------------------------------------------------------------
(* Claims about executeAgentWithValidation (Spec, FairSpec) *)

ScenarioC ==
    /\ config.maxAttempts = 3
    /\ Len(attempts) >= 1
    /\ \A i \in 1..Len(attempts) : FailedWith(attempts[i], i)

\* the retry decision has stopped the run
StoppedByDecision == pc = "done" /\ lastOp.op = "engine.analyzeAndDecide"

NoStableVersion == \A i \in 1..Len(versions) : ~versions[i].isStable

----------------------------------------------------------------------------
(* Claims about the steps of a run (Spec) *)

\* the run has returned because getChangedFiles gave no file
NoOpChange == pc = "done" /\ lastOp.op = "getChangedFiles"

\* the number of test runs the ledger accounts for
RecordedTestRuns ==
    Cardinality({i \in 1..Len(attempts) : attempts[i].testResults.present})

\* C11: scenario D, a change that changes nothing. Whenever the agent succeeds
\* and getChangedFiles returns no file, the ledger holds an attempt with the
\* number of the attempt under way, a successful agent result and no test
\* results; the test runner was not called for it; and the run ends successful.
C11_NoOpChangeRecordedAndSucceeded ==
    NoOpChange
    => /\ \E i \in 1..Len(attempts) :
             /\ attempts[i].attemptNumber = run.attemptNumber
             /\ attempts[i].agentResult.success
             /\ ~attempts[i].testResults.present
       /\ calls.tests = RecordedTestRuns
       /\ result.success

\* the run has returned because the tests of the attempt under way all passed
TestsPassed ==
    pc = "done" /\ lastOp.op = "executePlaywrightTests" /\ result.finalTestResults

\* C12: scenario B. Whenever the tests of an attempt all pass, after earlier
\* failing attempts or not, the ledger holds that attempt with test results
\* that passed, the version history holds a stable version of that attempt, and
\* the run ends successful with no further call of analyzeAndDecide (the last
\* decision is the one that started the attempt).
C12_PassingAttemptRecordedStableSucceeded ==
    TestsPassed
    => /\ \E i \in 1..Len(attempts) :
             /\ attempts[i].attemptNumber = run.attemptNumber
             /\ attempts[i].testResults.present
             /\ attempts[i].testResults.passed
       /\ \E k \in 1..Len(versions) :
             /\ versions[k].attemptNumber = run.attemptNumber
             /\ versions[k].isStable
       /\ result.success
       /\ decision.shouldRetry

\* the result of a cancelled run
CancelledResult ==
    ValidationResult(FALSE, run.attemptNumber, FALSE, "Cancelled by user", FALSE)

\* C13: cancellation. The agent is started only by a cancellation check that
\* answered false, for the first attempt and for every retry; once a check
\* answers true the run has ended failed with the error "Cancelled by user",
\* that check is the last step of the run, and neither the agent nor the test
\* runner is called after it.
C13_CancellationEndsRun ==
    /\ [](calls.cancelled
            => pc = "done" /\ result = CancelledResult
               /\ lastOp.op = "onCancellationCheck")
    /\ [][(pc' = "agent" => pc = "cancel" /\ ~calls'.cancelled)
          /\ (calls.cancelled
                => calls'.agent = calls.agent /\ calls'.tests = calls.tests)
          /\ ((pc = "cancel" /\ calls'.cancelled)
                => calls'.agent = calls.agent /\ calls'.tests = calls.tests)]_vars

\* a run cancelled at the check of a retry, after an attempt that ran its tests
C13_Witness ==
    /\ calls.cancelled
    /\ pc = "done"
    /\ run.attemptNumber >= 2
    /\ calls.agent >= 1
    /\ calls.tests >= 1
    /\ result = CancelledResult

\* C14: ordering of record and snapshot. In every state of a run, every version
\* of the history belongs to an attempt the ledger already holds: the version
\* of an attempt is created only after the attempt was recorded, never before.
C14_SnapshotOnlyAfterRecord ==
    \A k \in 1..Len(versions) :
        \E i \in 1..Len(attempts) :
            attempts[i].attemptNumber = versions[k].attemptNumber

\* C15: a failed checkpoint is fatal. Once a createVersion call of the run has
\* returned success = false, the run starts no further attempt (no decision to
\* retry, no call of the agent) and, when it has ended, its result is a failure
\* that carries an error.
C15_CheckpointFailureIsFatal ==
    /\ []((calls.versionFailed /\ pc = "done")
            => ~result.success /\ result.error # "none")
    /\ [][calls.versionFailed
            => calls'.agent = calls.agent /\ pc' \notin {"cancel", "agent"}]_vars

\* the rollback engine asks for a rollback and names no version to go back to
RollbackWithoutTarget ==
    /\ StoppedByDecision
    /\ rollback.decision.shouldRollback
    /\ rollback.decision.rollbackTarget = NoHash

\* C16: no stable checkpoint. Whenever the rollback decision of a run has
\* shouldRollback = true and no rollbackTarget, rollbackToVersion is not called
\* (neither in the step that takes the decision nor before it) and the run ends
\* failed.
C16_NoTargetNoRestoreAndFailed ==
    /\ [](RollbackWithoutTarget
            => calls.restore = 0 /\ ~calls.restored /\ pc = "done" /\ ~result.success)
    /\ [][RollbackWithoutTarget' => calls'.restore = calls.restore]_vars

\* a run stopped after two timeouts of the agent: manual intervention, a
\* rollback without a target
C16_Witness ==
    /\ RollbackWithoutTarget
    /\ rollback.analysis.overallAssessment = "manual_intervention"
    /\ Len(attempts) = 2
    /\ versions = <<>>
    /\ calls.restore = 0
    /\ ~result.success
    /\ result.rolledBack

----------------------------------------------------------------------------
(* Claims about RetryManager and analyzeErrorPatterns on one ledger (SpecRetry) *)

\* analyzeErrorPatterns assesses the ledger as rollback or manual intervention
ClassifierStops(atts) ==
    analyzeErrorPatterns(atts).overallAssessment \in {"rollback", "manual_intervention"}

\* analyzeAndDecide has just been called on a ledger that is neither empty nor full
DecidedBelowMaxAttempts ==
    /\ lastOp.op = "analyzeAndDecide"
    /\ 0 < Len(attempts)
    /\ Len(attempts) < config.maxAttempts

\* C17: the retry decision follows the pattern analysis. For every ledger with
\* 0 < count < maxAttempts, analyzeAndDecide returns shouldRetry = false and
\* shouldRollback = true exactly when analyzeErrorPatterns on the same ledger
\* assesses rollback or manual intervention, and shouldRetry = true and
\* shouldRollback = false otherwise.
C17_DecisionFollowsPatternAnalysis ==
    DecidedBelowMaxAttempts
    => IF ClassifierStops(attempts)
       THEN ~decision.shouldRetry /\ decision.shouldRollback
       ELSE decision.shouldRetry /\ ~decision.shouldRollback

----------------------------------------------------------------------------
(* Claims about the decisions of a run (Spec) *)

\* the run is at the head of its loop after a failed attempt, below maxAttempts,
\* and neither detector finds an error loop between the last two attempts
FailedWithoutLoopBelowMax ==
    /\ pc = "loop"
    /\ 0 < Len(attempts)
    /\ Len(attempts) < config.maxAttempts
    /\ ~detectErrorLoop(attempts)
    /\ detectStuckInLoop(attempts) = <<>>

\* C18: the documented retry flow. Whenever an attempt has failed, no error
\* loop is detected between the last two attempts and fewer than maxAttempts
\* attempts have been made, the next step of the run starts another attempt
\* with feedback instead of stopping.
C18_RetriesWhenNoLoopBelowMax ==
    [][FailedWithoutLoopBelowMax
         => /\ pc' = "cancel"
            /\ decision'.shouldRetry
            /\ run'.attemptNumber = Len(attempts) + 1
            /\ run'.feedback # NoFeedback]_vars

----------------------------------------------------------------------------
(* Claims about analyzeErrorPatterns (SpecRetry) *)

\* analyzeErrorPatterns has just been applied to the ledger
Analyzed == lastOp.op = "analyzeErrorPatterns"

\* the signals of an analysis: is there one of this type, and one above a confidence
HasSignal(type) ==
    \E i \in 1..Len(analysis.patterns) : analysis.patterns[i].type = type
HasSignalAbove(type, c) ==
    \E i \in 1..Len(analysis.patterns) :
        /\ analysis.patterns[i].type = type
        /\ RatGT(analysis.patterns[i].confidence, c)

\* the rules of the verdict in their order of priority: <<rule applies, verdict>>
VerdictRules ==
    << <<HasSignalAbove("stuck_in_loop", Rat(8, 10)), "rollback">>,
       <<HasSignalAbove("no_progress", Rat(7, 10)) /\ Len(attempts) >= 3, "rollback">>,
       <<HasSignal("timeout"), "manual_intervention">>,
       <<HasSignal("improving") \/ HasSignal("different_errors"), "continue">>,
       <<Len(attempts) < 3, "continue">>,
       <<TRUE, "rollback">> >>

\* the verdict of the first rule that applies
FirstMatchingVerdict ==
    LET first == CHOOSE k \in 1..Len(VerdictRules) :
                     /\ VerdictRules[k][1]
                     /\ \A j \in 1..(k - 1) : ~VerdictRules[j][1]
    IN VerdictRules[first][2]

\* C19: priority of the verdict. For every ledger, empty or not, the
\* overall assessment of analyzeErrorPatterns is that of the first rule that
\* applies among: (1) a stuck_in_loop pattern with confidence > 0.8: rollback;
\* (2) a no_progress pattern with confidence > 0.7 and at least 3 attempts:
\* rollback; (3) a timeout pattern: manual intervention; (4) an improving or
\* different_errors pattern: continue; (5) fewer than 3 attempts: continue;
\* (6) otherwise rollback. In particular a loop wins over an improvement or a
\* timeout pattern of the same analysis.
C19_VerdictPriority ==
    Analyzed
    => /\ analysis.overallAssessment = FirstMatchingVerdict
       /\ HasSignal("stuck_in_loop") => analysis.overallAssessment = "rollback"

\* an analysis that finds a loop together with an improvement: fewer errors of
\* the same words
C19_Witness ==
    /\ Analyzed
    /\ HasSignalAbove("stuck_in_loop", Rat(8, 10))
    /\ HasSignal("improving")
    /\ analysis.overallAssessment = "rollback"

\* the attempts with test results among the last three of the ledger
TestedOfLastThree ==
    {i \in 1..Len(attempts) : i > Len(attempts) - 3 /\ attempts[i].testResults.present}

\* the number of error messages of the tests of attempt i
ErrCount(i) == Len(attempts[i].testResults.errors)

\* the error counts of those attempts, oldest to newest, never fall, and the
\* newest is greater than the oldest
ErrCountsIncrease ==
    /\ Cardinality(TestedOfLastThree) >= 2
    /\ \A i, j \in TestedOfLastThree : i < j => ErrCount(i) <= ErrCount(j)
    /\ \E i, j \in TestedOfLastThree :
          /\ \A k \in TestedOfLastThree : i <= k /\ k <= j
          /\ ErrCount(j) > ErrCount(i)

\* C20: stalled, error count increasing. When at least two of the last three
\* attempts have test results and their error counts, oldest to newest, are
\* non-decreasing with the last greater than the first, analyzeErrorPatterns
\* emits a no_progress pattern with confidence 0.8.
C20_IncreasingErrorsAreNoProgress ==
    (Analyzed /\ ErrCountsIncrease)
    => \E k \in 1..Len(analysis.patterns) :
          /\ analysis.patterns[k].type = "no_progress"
          /\ RatEq(analysis.patterns[k].confidence, Rat(8, 10))

\* three attempts with failing tests and 1, 1 and 2 errors, analysed
C20_Witness ==
    /\ Analyzed
    /\ ErrCountsIncrease
    /\ Len(attempts) = 3
    /\ TestedOfLastThree = {1, 2, 3}
    /\ ErrCount(1) = 1 /\ ErrCount(2) = 1 /\ ErrCount(3) = 2
    /\ HasSignalAbove("no_progress", Rat(7, 10))

\* the error counts of the tested attempts among the last three are all equal
\* and not zero
ErrCountsFlat ==
    /\ Cardinality(TestedOfLastThree) >= 2
    /\ \A i, j \in TestedOfLastThree : ErrCount(i) = ErrCount(j)
    /\ \A i \in TestedOfLastThree : ErrCount(i) > 0

\* C21: stalled, error count flat. When at least two of the last three attempts
\* have test results and all their error counts are equal and not zero,
\* analyzeErrorPatterns emits a no_progress pattern with confidence 0.7.
C21_FlatErrorsAreNoProgress ==
    (Analyzed /\ ErrCountsFlat)
    => \E k \in 1..Len(analysis.patterns) :
          /\ analysis.patterns[k].type = "no_progress"
          /\ RatEq(analysis.patterns[k].confidence, Rat(7, 10))

\* the oldest and the newest of the tested attempts among the last three
OldestTested == CHOOSE i \in TestedOfLastThree : \A k \in TestedOfLastThree : i <= k
NewestTested == CHOOSE i \in TestedOfLastThree : \A k \in TestedOfLastThree : k <= i

\* the error counts of the tested attempts among the last three fall from each
\* to the next
ErrCountsStrictlyDecrease ==
    /\ Cardinality(TestedOfLastThree) >= 2
    /\ \A i, j \in TestedOfLastThree : i < j => ErrCount(i) > ErrCount(j)

\* min(0.3 + (1 - last / first), 1) in tenths of first: (13 first - 10 last) / (10 first)
\* capped at 1
ImprovingConfidence(first, last) ==
    IF 13 * first - 10 * last >= 10 * first
    THEN Rat(1, 1)
    ELSE Rat(13 * first - 10 * last, 10 * first)

\* C22: improving. When at least two of the last three attempts have test
\* results and their error counts are strictly decreasing, analyzeErrorPatterns
\* emits an improving pattern with confidence min(0.3 + (1 - last/first), 1);
\* there the first count is greater than 0, so last/first divides by no zero,
\* and the confidence is greater than 0.3 and at most 1.
C22_ImprovingConfidence ==
    (Analyzed /\ ErrCountsStrictlyDecrease)
    => /\ ErrCount(OldestTested) > 0
       /\ \E k \in 1..Len(analysis.patterns) :
             LET p == analysis.patterns[k]
             IN /\ p.type = "improving"
                /\ p.confidence.d # 0
                /\ RatEq(p.confidence,
                         ImprovingConfidence(ErrCount(OldestTested), ErrCount(NewestTested)))
                /\ RatGT(p.confidence, Rat(3, 10))
                /\ RatLE(p.confidence, RatOne)

\* two tested attempts with 2 errors and then 1: improving with confidence 0.8
C22_Witness ==
    /\ Analyzed
    /\ ErrCountsStrictlyDecrease
    /\ ErrCount(OldestTested) = 2
    /\ ErrCount(NewestTested) = 1
    /\ \E k \in 1..Len(analysis.patterns) :
          /\ analysis.patterns[k].type = "improving"
          /\ RatEq(analysis.patterns[k].confidence, Rat(8, 10))

----------------------------------------------------------------------------
(* Claims about the confidences of patterns and rollback decisions (SpecEngine) *)

\* a rational number with a positive denominator that lies in [0, 1]
InUnitInterval(c) == c.d > 0 /\ RatLE(RatZero, c) /\ RatLE(c, RatOne)

\* RollbackEngine.analyzeAndDecide has just been called
EngineDecided == lastOp.op = "engine.analyzeAndDecide"

\* C23: confidences are bounded. For every ledger and version history, every
\* pattern that analyzeErrorPatterns emits has a confidence in [0, 1], and the
\* rollback decision taken from it has a confidence in [0, 1].
C23_ConfidencesInUnitInterval ==
    EngineDecided
    => /\ \A k \in 1..Len(rollback.analysis.patterns) :
             InUnitInterval(rollback.analysis.patterns[k].confidence)
       /\ InUnitInterval(rollback.decision.confidence)

\* a ledger whose error count falls from 1 to 0: the improvement rate plus 0.3
\* is 1.3, and the pattern is emitted with confidence 1
C23_Witness ==
    /\ EngineDecided
    /\ Len(engineAttempts) = 2
    /\ Len(engineAttempts[1].testResults.errors) = 1
    /\ engineAttempts[2].testResults.present
    /\ Len(engineAttempts[2].testResults.errors) = 0
    /\ \E k \in 1..Len(rollback.analysis.patterns) :
          /\ rollback.analysis.patterns[k].type = "improving"
          /\ RatEq(rollback.analysis.patterns[k].confidence, RatOne)
    /\ InUnitInterval(rollback.decision.confidence)

----------------------------------------------------------------------------
(* Claims about the feedback of a ledger (SpecFeedback) *)

\* the feedback and the analysis of the ledger have both been computed
FeedbackAndAnalysis == run.feedback # NoFeedback /\ analysis # NoAnalysis

\* C24: the loop warning of the feedback. For every ledger that is not empty,
\* generateRetryFeedback appends the warning to consider a completely different
\* approach exactly when analyzeErrorPatterns on the same ledger reports a
\* stuck_in_loop pattern.
C24_WarningIffLoopPattern ==
    (FeedbackAndAnalysis /\ Len(attempts) > 0)
    => (run.feedback.warning <=> HasSignal("stuck_in_loop"))

----------------------------------------------------------------------------
(* Claims about getLastSuccessfulAttempt (SpecLast) *)

\* getLastSuccessfulAttempt has returned; lastOp.arg is the index it returned
LastReturned == lastOp.op = "getLastSuccessfulAttempt"

\* attempt i passed its tests or, having no test results, its agent succeeded
PassedOrSkippedOk(i) ==
    \/ attempts[i].testResults.present /\ attempts[i].testResults.passed
    \/ ~attempts[i].testResults.present /\ attempts[i].agentResult.success

\* attempt i has test results that passed and an agent result that succeeded
PassedAndAgentOk(i) ==
    /\ attempts[i].testResults.present
    /\ attempts[i].testResults.passed
    /\ attempts[i].agentResult.success

\* C25 as stated: getLastSuccessfulAttempt returns the most recent attempt
\* whose tests passed or, when it has no test results, whose agent succeeded,
\* and null when there is none.
C25_LastPassedOrSkippedOk ==
    LastReturned
    => IF \E i \in 1..Len(attempts) : PassedOrSkippedOk(i)
       THEN /\ lastOp.arg \in 1..Len(attempts)
            /\ PassedOrSkippedOk(lastOp.arg)
            /\ \A k \in (lastOp.arg + 1)..Len(attempts) : ~PassedOrSkippedOk(k)
       ELSE lastOp.arg = 0

\* C25 amended: getLastSuccessfulAttempt returns the most recent attempt that
\* has test results that passed and whose agent succeeded, and null when there
\* is none; an attempt without test results is never returned.
C25_LastPassedAndAgentOk ==
    LastReturned
    => IF \E i \in 1..Len(attempts) : PassedAndAgentOk(i)
       THEN /\ lastOp.arg \in 1..Len(attempts)
            /\ PassedAndAgentOk(lastOp.arg)
            /\ \A k \in (lastOp.arg + 1)..Len(attempts) : ~PassedAndAgentOk(k)
       ELSE lastOp.arg = 0

\* two attempts that passed and succeeded, then one without tests whose agent
\* succeeded: the second is returned
C25_Witness ==
    /\ LastReturned
    /\ Len(attempts) = 3
    /\ PassedAndAgentOk(1)
    /\ PassedAndAgentOk(2)
    /\ ~attempts[3].testResults.present
    /\ attempts[3].agentResult.success
    /\ lastOp.arg = 2

----------------------------------------------------------------------------
(* Claims about the versions and the ledger of a run (Spec) *)

\* C26: the version history of a run. In every state of a run the history
\* holds at most one version per attempt number and its entries are in strictly
\* increasing order of attemptNumber, so getLastStableVersion, which scans from
\* the end, finds the stable version with the greatest attemptNumber (and none
\* when no version is stable).
C26_VersionHistoryOrdered ==
    /\ \A i, j \in 1..Len(versions) :
          i < j => versions[i].attemptNumber < versions[j].attemptNumber
    /\ LET last == getLastStableVersion(versions)
       IN IF \E k \in 1..Len(versions) : versions[k].isStable
          THEN /\ last \in 1..Len(versions)
               /\ versions[last].isStable
               /\ \A k \in 1..Len(versions) :
                     versions[k].isStable
                        => versions[k].attemptNumber <= versions[last].attemptNumber
          ELSE last = 0

\* a run whose first two attempts failed their tests and whose third passed:
\* two unstable versions and then the stable one
C26_Witness ==
    /\ pc = "done"
    /\ Len(versions) = 3
    /\ ~versions[1].isStable /\ ~versions[2].isStable /\ versions[3].isStable
    /\ versions[1].attemptNumber = 1
    /\ versions[3].attemptNumber = 3
    /\ getLastStableVersion(versions) = 3

\* tests are required for the attempt under way: test generation is on and the
\* changed files are those of a web project
TestsRequired == run.generateTests /\ run.changed = "web"

\* C27: marking of stable versions. A version is created stable only for an
\* attempt whose tests ran and passed, or for which no tests were required and
\* whose agent succeeded; an attempt whose tests were required but could not be
\* generated, installed or written has no stable version.
C27_StableOnlyIfPassedOrNoTestsRequired ==
    \A k \in 1..Len(versions) :
        versions[k].isStable
           => /\ pc = "done"
              /\ versions[k].attemptNumber = run.attemptNumber
              /\ TestsPassed \/ ~TestsRequired

\* the agent of the attempt under way has just reported failure
AgentJustFailed == pc = "loop" /\ lastOp.op = "executeAgent" /\ calls.agentFailed

\* the last attempt of a ledger is the attempt under way, with a failed agent
\* and no test results
FailedAgentRecorded(ledger) ==
    /\ Len(ledger) > 0
    /\ ledger[Len(ledger)].attemptNumber = run.attemptNumber
    /\ ~ledger[Len(ledger)].agentResult.success
    /\ ledger[Len(ledger)].testResults = NoTests

\* C28: the step of a failing agent. When the agent reports failure, the
\* attempt is recorded in both ledgers with agentResult.success = false and no
\* test results, the tests are not executed and no version is created in that
\* attempt, and the run goes to the head of the loop, where the retry decision
\* is made.
C28_AgentFailureRecordedAndRetried ==
    /\ [][(pc = "agent" /\ calls'.agentFailed)
             => /\ pc' = "loop"
                /\ Len(attempts') = Len(attempts) + 1
                /\ SubSeq(attempts', 1, Len(attempts)) = attempts
                /\ calls'.tests = calls.tests
                /\ versions' = versions]_vars
    /\ [](AgentJustFailed
             => /\ FailedAgentRecorded(attempts)
                /\ FailedAgentRecorded(engineAttempts)
                /\ calls.tests = RecordedTestRuns
                /\ \A k \in 1..Len(versions) :
                      versions[k].attemptNumber # run.attemptNumber)
    /\ [][(pc = "agent" /\ pc' = "loop") => calls'.agentFailed]_vars

\* the agent fails on a retry that follows an attempt with failed tests
C28_Witness ==
    /\ AgentJustFailed
    /\ Len(attempts) >= 2
    /\ attempts[1].testResults # NoTests
    /\ Len(versions) > 0

\* the promise of executeAgentWithValidation has rejected: the failure of a
\* call went through to the caller
RunRejected == pc = "thrown"

\* C29: no failure escapes. A failure thrown by the agent, the test executor or
\* a call of the sandbox during a run is caught inside executeAgentWithValidation
\* and becomes a recorded failed attempt or a returned result without success;
\* it never reaches the caller, so the run never ends rejected.
C29_NoFailureReachesTheCaller == ~RunRejected

\* C30: attempt numbers of the ledger. In every state of a run the i-th recorded
\* attempt has attemptNumber i, so the numbers are unique, start at 1 without a
\* gap and increase; and a step never changes or removes an attempt that is
\* already recorded: it leaves the ledger alone or appends to it.
C30_LedgerNumberedInOrderAppendOnly ==
    /\ [](\A i \in 1..Len(attempts) : attempts[i].attemptNumber = i)
    /\ [][/\ Len(attempts') >= Len(attempts)
          /\ SubSeq(attempts', 1, Len(attempts)) = attempts]_vars

\* three recorded attempts, the first of a failed agent, the second of failed tests
C30_Witness ==
    /\ Len(attempts) = 3
    /\ attempts[1].testResults = NoTests
    /\ attempts[2].testResults # NoTests
    /\ attempts[3].attemptNumber = 3

C32_RolledBackMeansRestored ==
    (pc = "done" /\ result.rolledBack)
       => /\ calls.restore > 0
          /\ calls.restored
          /\ rollback.decision.rollbackTarget # NoHash

\* the run has returned success
Succeeded == pc = "done" /\ result.success

\* the run returned at the test generation because the project is no web project
NotAWebProject ==
    pc = "done" /\ lastOp.op = "generatePlaywrightTests" /\ run.changed = "other"

\* C33: success is justified. A run returns success = true only if in its last
\* attempt the agent succeeded and either no file was changed, or the project
\* is no web project, or the tests were executed and passed; it never returns
\* success for an attempt whose tests did not run because the generation of the
\* tests, the installation of Playwright or the writing of the test file failed.
C33_SuccessIsJustified ==
    Succeeded
       => /\ ~calls.agentFailed
          /\ NoOpChange \/ NotAWebProject \/ TestsPassed
          /\ lastOp.op \notin {"installPlaywright", "writeTestFile"}

C35_NoLoopWarningInFeedback ==
    /\ [](~run.feedback.warning)
    /\ [][run'.feedback # run.feedback
             => /\ decision' = analyzeAndDecide(attempts, config)
                /\ decision'.shouldRetry
                /\ attempts' = attempts
                /\ run'.feedback = generateRetryFeedback(attempts, config)
                /\ ~detectErrorLoop(attempts)]_vars

\* the agent runs with the feedback of two attempts with failed tests
C35_Witness ==
    /\ pc = "agent"
    /\ run.attemptNumber = 3
    /\ run.feedback.kind = "errors"
    /\ run.feedback.attemptNote
    /\ attempts[1].testResults.present
    /\ ~run.feedback.warning

\* C36: signals that exclude each other. For every ledger the patterns of
\* analyzeErrorPatterns never hold improving together with no_progress, never
\* improving together with different_errors, and never stuck_in_loop together
\* with different_errors.
C36_SignalExclusions ==
    Analyzed
       => /\ ~(HasSignal("improving") /\ HasSignal("no_progress"))
          /\ ~(HasSignal("improving") /\ HasSignal("different_errors"))
          /\ ~(HasSignal("stuck_in_loop") /\ HasSignal("different_errors"))

\* an analysis with two signals that do go together, a loop and an improvement,
\* on a ledger whose last two attempts have error counts going down
C36_Witness ==
    /\ Analyzed
    /\ Len(analysis.patterns) = 2
    /\ HasSignal("stuck_in_loop")
    /\ HasSignal("improving")
    /\ ~HasSignal("different_errors")
    /\ ~HasSignal("no_progress")

\* C37: the two ledgers stay in step. Whenever the retry decision is evaluated
\* at the head of the loop, the attempts of the rollback engine are the attempts
\* of the retry manager, the same attempts in the same order.
C37_LedgersInStep ==
    /\ [](pc = "loop" => engineAttempts = attempts)
    /\ [][decision' # decision => engineAttempts = attempts]_vars
    /\ [](StoppedByDecision => rollback.analysis = analyzeErrorPatterns(attempts))

\* the decision is about to be evaluated on two attempts, the first of a failed
\* agent and the second of failed tests
C37_Witness ==
    /\ pc = "loop"
    /\ Len(attempts) = 2
    /\ ~attempts[1].testResults.present
    /\ attempts[2].testResults.present
    /\ engineAttempts = attempts

\* the last attempt of the ledger succeeded and its tests passed
LastAttemptPassed ==
    /\ Len(attempts) > 0
    /\ attempts[Len(attempts)].agentResult.success
    /\ attempts[Len(attempts)].testResults.present
    /\ attempts[Len(attempts)].testResults.passed

\* C38: executeWithRetry contains the exceptions of its attempts. An exception
\* thrown by executeAttempt is recorded as a failed attempt (agent success
\* false, no test results) and the loop goes on; executeAttempt is called at
\* most maxAttempts times; and the function returns success = true exactly when
\* the last attempt it executed returned success with passed tests.
C38_ExecuteWithRetryContainsExceptions ==
    /\ [][(pc = "attempt" /\ lastOp'.op = "executeAttempt throws")
             => /\ pc' = "loop"
                /\ attempts' = Append(attempts, attempts'[Len(attempts')])
                /\ attempts'[Len(attempts')].attemptNumber = run.attemptNumber
                /\ ~attempts'[Len(attempts')].agentResult.success
                /\ ~attempts'[Len(attempts')].testResults.present
                /\ result' = result]_vars
    /\ [](calls.agent <= config.maxAttempts /\ calls.agent = Len(attempts))
    /\ [](pc = "done"
             => /\ Len(attempts) > 0
                /\ result.success <=> LastAttemptPassed
                /\ result.success <=> lastOp.op = "executeAttempt")

\* a call that returned success on its third attempt, after an attempt that
\* threw and an attempt whose tests failed
C38_Witness ==
    /\ pc = "done"
    /\ result.success
    /\ Len(attempts) = 3
    /\ attempts[1].agentResult.error = <<"T", "i", "m", "e", "o", "u", "t">>
    /\ attempts[2].testResults.present
    /\ calls.agent = 3

\* the ports held by the chats
AllocatedPorts == {allocations[c].port : c \in DOMAIN allocations}

\* C39: the port registry is injective. After any calls of allocatePort,
\* releasePort and cleanupExpired no two chats hold the same port, every
\* allocated port lies in 3100..3999, usedPorts is the set of the ports in the
\* allocations, and allocatePort for a chat that holds a port returns that port.
C39_PortRegistryInjective ==
    /\ [](\A c1, c2 \in DOMAIN allocations :
             allocations[c1].port = allocations[c2].port => c1 = c2)
    /\ [](\A c \in DOMAIN allocations :
             allocations[c].port >= 3100 /\ allocations[c].port <= 3999)
    /\ [](usedPorts = AllocatedPorts)
    /\ [][(lastOp'.op = "allocatePort" /\ lastOp'.chatId \in DOMAIN allocations)
             => /\ lastOp'.arg = allocations[lastOp'.chatId].port
                /\ allocations' = allocations
                /\ usedPorts' = usedPorts]_vars

\* two chats hold the two lowest ports, the lower one by the chat that came
\* second, after a release; and the last call asked again for a port held
C39_Witness ==
    /\ DOMAIN allocations = {1, 2}
    /\ allocations[2].port = 3100
    /\ allocations[1].port = 3101
    /\ lastOp = [op |-> "allocatePort", arg |-> 3100, chatId |-> 2]
    /\ now > ALLOCATION_TIMEOUT

====
